---- MODULE Spec2Model ----
(***************************************************************************)
(* Model of the issue moderation engine of                                 *)
(* dify-issue-moderator/scripts/moderate_issue.py, and of the run of the   *)
(* pull-request review of pr-review-helper/scripts/review_pr.py.           *)
(*                                                                         *)
(* A text (Python str) is a sequence of characters.  An ASCII character is *)
(* a one-character string; a non-ASCII character is written by its code   *)
(* point in hexadecimal, "<4e2d>" for U+4E2D.                              *)
(***************************************************************************)
EXTENDS Integers, Sequences, FiniteSets, TLC

VARIABLES
    issue,         \* the issue read (IssueData)
    decision,      \* the decision of decide
    pc,            \* the position of the run
    args,          \* the command line of a run of main
    target,        \* the (repo, number) pair of parse_issue_target
    calls,         \* the gh commands run so far, in order
    stdout,        \* what the run has printed
    stderr,        \* what the run has printed as errors
    exit_status,   \* the exit status of main, once it has returned
    call,          \* a function applied on its own, with its argument
    result,        \* the value the function returned
    workdir,       \* the git repository of a review: its head and branches
    original_branch, \* the branch the review started on
    pr_branch,     \* the branch of the pull request, once checked out
    pr_data,       \* what gh pr view returned
    results,       \* the results of the checks of the review
    approved       \* whether the review approves

\* The state of a run of main, and of a function applied on its own.
mainVars == <<args, target, calls, stdout, stderr, exit_status>>

callVars == <<call, result>>

\* The state of a run of the review of a pull request.
reviewVars ==
    <<workdir, original_branch, pr_branch, pr_data, results, approved>>

vars == <<issue, decision, pc, mainVars, callVars, reviewVars>>

----------------------------------------------------------------------------
(* Characters: the classes str.isspace, str.lower/upper and the regex      *)
(* classes \s, \d, \w and \b rest on.                                      *)

LowerMap ==
    "A" :> "a" @@ "B" :> "b" @@ "C" :> "c" @@ "D" :> "d" @@ "E" :> "e" @@
    "F" :> "f" @@ "G" :> "g" @@ "H" :> "h" @@ "I" :> "i" @@ "J" :> "j" @@
    "K" :> "k" @@ "L" :> "l" @@ "M" :> "m" @@ "N" :> "n" @@ "O" :> "o" @@
    "P" :> "p" @@ "Q" :> "q" @@ "R" :> "r" @@ "S" :> "s" @@ "T" :> "t" @@
    "U" :> "u" @@ "V" :> "v" @@ "W" :> "w" @@ "X" :> "x" @@ "Y" :> "y" @@
    "Z" :> "z"

UpperMap ==
    "a" :> "A" @@ "b" :> "B" @@ "c" :> "C" @@ "d" :> "D" @@ "e" :> "E" @@
    "f" :> "F" @@ "g" :> "G" @@ "h" :> "H" @@ "i" :> "I" @@ "j" :> "J" @@
    "k" :> "K" @@ "l" :> "L" @@ "m" :> "M" @@ "n" :> "N" @@ "o" :> "O" @@
    "p" :> "P" @@ "q" :> "Q" @@ "r" :> "R" @@ "s" :> "S" @@ "t" :> "T" @@
    "u" :> "U" @@ "v" :> "V" @@ "w" :> "W" @@ "x" :> "X" @@ "y" :> "Y" @@
    "z" :> "Z"

DigitMap ==
    "0" :> 0 @@ "1" :> 1 @@ "2" :> 2 @@ "3" :> 3 @@ "4" :> 4 @@
    "5" :> 5 @@ "6" :> 6 @@ "7" :> 7 @@ "8" :> 8 @@ "9" :> 9

\* Code points of the non-ASCII characters of the model: the ideographs and
\* the punctuation of ALLOWED_SELF_CHECKS_CJK_SNIPPETS, the ideographs
\* U+4E2D and U+6587, the ideographic space and the fullwidth question mark.
CodePoint ==
    "<6211>" :> 25105 @@ "<5df2>" :> 24050 @@ "<9605>" :> 38405 @@
    "<8bfb>" :> 35835 @@ "<5e76>" :> 24182 @@ "<540c>" :> 21516 @@
    "<610f>" :> 24847 @@ "<8bf7>" :> 35831 @@ "<52a1>" :> 21153 @@
    "<5fc5>" :> 24517 @@ "<4f7f>" :> 20351 @@ "<7528>" :> 29992 @@
    "<82f1>" :> 33521 @@ "<6587>" :> 25991 @@ "<63d0>" :> 25552 @@
    "<4ea4>" :> 20132 @@ "<ff0c>" :> 65292 @@ "<5426>" :> 21542 @@
    "<5219>" :> 21017 @@ "<4f1a>" :> 20250 @@ "<88ab>" :> 34987 @@
    "<5173>" :> 20851 @@ "<95ed>" :> 38381 @@ "<3002>" :> 12290 @@
    "<8c22>" :> 35874 @@ "<ff01>" :> 65281 @@ "<4e2d>" :> 20013 @@
    "<3000>" :> 12288 @@ "<ff1f>" :> 65311

\* CJK_RE: the character ranges, first and last code point of each.
CJK_RE ==
    { <<11904, 12031>>, <<12288, 12351>>, <<12352, 12447>>,
      <<12448, 12543>>, <<12544, 12591>>, <<12592, 12687>>,
      <<12800, 13055>>, <<13056, 13311>>, <<13312, 19903>>,
      <<19968, 40959>>, <<44032, 55215>>, <<63744, 64255>>,
      <<65072, 65103>>, <<65281, 65376>>, <<65504, 65519>> }

\* CJK_RE.match(ch)
IsCjk(c) ==
    LET InRange(n) == \E r \in CJK_RE : r[1] <= n /\ n <= r[2]
    IN  c \in DOMAIN CodePoint /\ InRange(CodePoint[c])

\* str.isspace and the regex class \s (Unicode): U+3000 is a space.
IsSpace(c) == c \in {" ", "\n", "\t", "<3000>"}

IsDigit(c) == c \in DOMAIN DigitMap

\* The ideographs (general category Lo) among the non-ASCII characters.
IsIdeograph(c) ==
    LET InRange(n) ==
            \/ 13312 <= n /\ n <= 19903
            \/ 19968 <= n /\ n <= 40959
    IN  c \in DOMAIN CodePoint /\ InRange(CodePoint[c])

\* The regex class \w on str patterns: Unicode letters, digits, underscore.
IsWordChar(c) ==
    c \in DOMAIN LowerMap \/ c \in DOMAIN UpperMap \/ IsDigit(c)
        \/ c = "_" \/ IsIdeograph(c)

LowerChar(c) == IF c \in DOMAIN LowerMap THEN LowerMap[c] ELSE c

UpperChar(c) == IF c \in DOMAIN UpperMap THEN UpperMap[c] ELSE c

\* A function on 1..n as a tuple: TLC keeps a function constructor
\* unevaluated and evaluates it again at each application.
AsTuple(f) == SubSeq(f, 1, Len(f))

\* str.lower()
Lower(s) == AsTuple([i \in 1..Len(s) |-> LowerChar(s[i])])

\* str.upper()
Upper(s) == AsTuple([i \in 1..Len(s) |-> UpperChar(s[i])])

Indices(s) == AsTuple([i \in 1..Len(s) |-> i])

\* Positions of the first and the last non-space character (0 if none).
FirstNonSpace(s) ==
    IF \E i \in 1..Len(s) : ~IsSpace(s[i])
    THEN CHOOSE i \in 1..Len(s) :
            ~IsSpace(s[i]) /\ \A j \in 1..(i - 1) : IsSpace(s[j])
    ELSE 0

LastNonSpace(s) ==
    IF \E i \in 1..Len(s) : ~IsSpace(s[i])
    THEN CHOOSE i \in 1..Len(s) :
            ~IsSpace(s[i]) /\ \A j \in (i + 1)..Len(s) : IsSpace(s[j])
    ELSE 0

\* str.strip()
Strip(s) ==
    LET Between(first) ==
            IF first = 0 THEN <<>> ELSE SubSeq(s, first, LastNonSpace(s))
    IN  Between(FirstNonSpace(s))

\* normalize_space: re.sub(r"\s+", " ", text).strip()
normalize_space(text) ==
    LET \* A character is kept unless it is a space that follows a space or
        \* that no non-space character follows or precedes.
        Kept(last) ==
            LET Keep(i) == \/ ~IsSpace(text[i])
                           \/ i > 1 /\ ~IsSpace(text[i - 1]) /\ i < last
            IN  SelectSeq(Indices(text), Keep)
        Normalized(kept) ==
            AsTuple([k \in 1..Len(kept) |->
                        IF IsSpace(text[kept[k]]) THEN " " ELSE text[kept[k]]])
    IN  Normalized(Kept(LastNonSpace(text)))

\* str.splitlines() for the line break "\n": no line after a final break.
SplitLines(s) ==
    LET IsBreak(i) == s[i] = "\n"
        \* The lines between the breaks at the positions brk.
        Lines(brk, count) ==
            AsTuple([k \in 1..count |->
                        SubSeq(s,
                               IF k = 1 THEN 1 ELSE brk[k - 1] + 1,
                               IF k = Len(brk) + 1 THEN Len(s) ELSE brk[k] - 1)])
        Split(brk) ==
            Lines(brk, IF Len(s) = 0 \/ s[Len(s)] = "\n"
                       THEN Len(brk) ELSE Len(brk) + 1)
    IN  Split(SelectSeq(Indices(s), IsBreak))

RECURSIVE JoinWith(_, _)
\* sep.join(parts)
JoinWith(sep, parts) ==
    IF Len(parts) = 0 THEN <<>>
    ELSE IF Len(parts) = 1 THEN parts[1]
    ELSE parts[1] \o sep \o JoinWith(sep, Tail(parts))

\* p occurs in s at position i.
HasAt(s, p, i) ==
    /\ i >= 1
    /\ i + Len(p) - 1 <= Len(s)
    /\ \A k \in 1..Len(p) : s[i + k - 1] = p[k]

\* "p in s"
Contains(s, p) == \E i \in 1..(Len(s) - Len(p) + 1) : HasAt(s, p, i)

\* The regex assertion \b between positions i-1 and i of s.
WordBoundary(s, i) ==
    LET before == i > 1 /\ i - 1 <= Len(s) /\ IsWordChar(s[i - 1])
        after == i >= 1 /\ i <= Len(s) /\ IsWordChar(s[i])
    IN  before # after

\* re.search(r"\bword\b", s) for a literal word.
ContainsWord(s, w) ==
    \E i \in 1..(Len(s) - Len(w) + 1) :
        HasAt(s, w, i) /\ WordBoundary(s, i) /\ WordBoundary(s, i + Len(w))

\* End of the longest run of characters satisfying a class, from position i:
\* the position after the run (i itself if the run is empty).
RECURSIVE SkipSpaces(_, _)
SkipSpaces(s, i) ==
    IF i <= Len(s) /\ IsSpace(s[i]) THEN SkipSpaces(s, i + 1) ELSE i

RECURSIVE SkipDigits(_, _)
SkipDigits(s, i) ==
    IF i <= Len(s) /\ IsDigit(s[i]) THEN SkipDigits(s, i + 1) ELSE i

RECURSIVE SkipHashes(_, _)
SkipHashes(s, i) ==
    IF i <= Len(s) /\ s[i] = "#" THEN SkipHashes(s, i + 1) ELSE i

RECURSIVE ParseInt(_)
\* int(digits)
ParseInt(digits) ==
    IF Len(digits) = 0 THEN 0
    ELSE 10 * ParseInt(SubSeq(digits, 1, Len(digits) - 1))
            + DigitMap[digits[Len(digits)]]

----------------------------------------------------------------------------
(* Configuration.                                                          *)

PLUGIN_REPOS == {"langgenius/dify-plugins", "langgenius/dify-official-plugins"}

CORE_REPO == "langgenius/dify"

WEBAPP_REPOS ==
    {"langgenius/webapp-conversation", "langgenius/webapp-text-generator"}

CORE_LIKE_REPOS == {CORE_REPO} \cup WEBAPP_REPOS

SUPPORTED_REPOS == PLUGIN_REPOS \cup CORE_LIKE_REPOS

SKIP_ASSOCIATIONS ==
    {<<"O","W","N","E","R">>, <<"M","E","M","B","E","R">>, <<"C","O","L","L","A","B","O","R","A","T","O","R">>, <<"C","O","N","T","R","I","B","U","T","O","R">>}

\* CJK_RATIO_THRESHOLD = 0.20, in percent.
CJK_RATIO_THRESHOLD == 20

MIN_DIFY_VERSION == <<1, 10, 0>>

MIN_DIFY_VERSION_STR == "1.10.0"

ALLOWED_SELF_CHECKS_CJK_SNIPPETS ==
    << <<"<6211>","<5df2>","<9605>","<8bfb>","<5e76>","<540c>","<610f>">>,
       <<"<8bf7>","<52a1>","<5fc5>","<4f7f>","<7528>","<82f1>","<6587>","<63d0>","<4ea4>"," ","I","s","s","u","e","<ff0c>","<5426>","<5219>","<4f1a>","<88ab>","<5173>","<95ed>","<3002>","<8c22>","<8c22>","<ff01>",":",")">> >>

----------------------------------------------------------------------------
(* Language ratio.  A ratio (Python float) is kept as the exact fraction    *)
(* [num, den].                                                             *)

IsNonSpace(c) == ~IsSpace(c)

\* cjk_count / total, or 0.0 if total is 0
RatioOf(cjk_count, total) ==
    IF total = 0 THEN [num |-> 0, den |-> 1]
    ELSE [num |-> cjk_count, den |-> total]

cjk_ratio(text) ==
    IF Len(text) = 0 THEN [num |-> 0, den |-> 1]
    ELSE RatioOf(Len(SelectSeq(text, IsCjk)), Len(SelectSeq(text, IsNonSpace)))

\* a >= b on ratios
RatioGeq(a, b) == a.num * b.den >= b.num * a.den

\* The ratio of the title and body together, whatever that of the body.
RatioOfCombined(a, b) == a

\* max(a, b): the first argument unless the second is greater.
RatioMax(a, b) == IF RatioGeq(a, b) THEN a ELSE b

\* ratio >= CJK_RATIO_THRESHOLD
AtOrAboveThreshold(ratio) == ratio.num * 100 >= CJK_RATIO_THRESHOLD * ratio.den

\* re.match(r"^#{1,6}\s+.*", stripped)
IsHeadingLine(stripped) ==
    LET SpaceAfter(hashes) ==
            /\ hashes >= 1
            /\ hashes <= 6
            /\ hashes + 1 <= Len(stripped)
            /\ IsSpace(stripped[hashes + 1])
    IN  SpaceAfter(SkipHashes(stripped, 1) - 1)

\* SELF_CHECKS_HEADER_RE.match(stripped): ^#{1,6}\s*Self Checks\s*$, IGNORECASE
SELF_CHECKS_HEADER_RE(stripped) ==
    LET TextAt(j) ==
            /\ HasAt(Lower(stripped), <<"s","e","l","f"," ","c","h","e","c","k","s">>, j)
            /\ SkipSpaces(stripped, j + 11) = Len(stripped) + 1
        After(hashes) ==
            /\ hashes >= 1
            /\ hashes <= 6
            /\ TextAt(SkipSpaces(stripped, hashes + 1))
    IN  After(SkipHashes(stripped, 1) - 1)

RECURSIVE RemoveFrom(_, _, _)
RemoveFrom(s, p, i) ==
    IF i > Len(s) THEN <<>>
    ELSE IF HasAt(s, p, i) THEN RemoveFrom(s, p, i + Len(p))
    ELSE <<s[i]>> \o RemoveFrom(s, p, i + 1)

\* s.replace(p, "")
RemoveAll(s, p) == RemoveFrom(s, p, 1)

\* The line with each allowed snippet replaced by "", in their order.
RemoveSnippets(line) ==
    RemoveAll(RemoveAll(line, ALLOWED_SELF_CHECKS_CJK_SNIPPETS[1]),
              ALLOWED_SELF_CHECKS_CJK_SNIPPETS[2])

CheckboxOnly == {<<"-"," ","[","x","]">>, <<"-"," ","["," ","]">>, <<"-"," ","[","X","]">>, <<"*"," ","[","x","]">>, <<"*"," ","["," ","]">>, <<"*"," ","[","X","]">>, <<>>}

RECURSIVE SanitizeLines(_, _, _)
\* The loop of sanitize_body_for_cjk from line k on: the lines it emits.
SanitizeLines(lines, k, in_self_checks) ==
    LET \* What the line adds to sanitized, and in_self_checks after it.
        Sanitized(line, stripped, cleaned) ==
            IF IsHeadingLine(stripped)
            THEN <<<<line>>, SELF_CHECKS_HEADER_RE(stripped)>>
            ELSE IF /\ in_self_checks
                    /\ \E n \in DOMAIN ALLOWED_SELF_CHECKS_CJK_SNIPPETS :
                            Contains(line, ALLOWED_SELF_CHECKS_CJK_SNIPPETS[n])
            THEN IF Strip(cleaned) \in CheckboxOnly
                 THEN <<<<>>, in_self_checks>>
                 ELSE <<<<cleaned>>, in_self_checks>>
            ELSE <<<<line>>, in_self_checks>>
        Continue(step) == step[1] \o SanitizeLines(lines, k + 1, step[2])
    IN  IF k > Len(lines) THEN <<>>
        ELSE Continue(Sanitized(lines[k], Strip(lines[k]),
                                RemoveSnippets(lines[k])))

\* The snippets are removed from the first line on, Self Checks heading or
\* not.
sanitize_from_first_line(body) ==
    JoinWith(<<"\n">>, SanitizeLines(SplitLines(body), 1, TRUE))

sanitize_body_for_cjk(body) ==
    JoinWith(<<"\n">>, SanitizeLines(SplitLines(body), 1, FALSE))

language_check_text(i) == i.title \o <<"\n">> \o sanitize_body_for_cjk(i.body)

----------------------------------------------------------------------------
(* Version extraction.  None is the empty tuple.                           *)

None == <<>>

\* The match of v?(\d+)\.(\d+)(?:\.(\d+))?\b at position i of s: the groups
\* as digit strings (the third None if absent), or None if there is no
\* match.  Each \d+ is the whole run of digits: a shorter run is followed by
\* a digit, where neither "." nor \b matches.
VersionAt(s, i) ==
    LET \* a: start of the major digits, b: their end, d: end of the minor
        \* digits, e: end of the patch digits.
        Groups(a, b, d, e) ==
            IF ~(b > a /\ b <= Len(s) /\ s[b] = "." /\ d > b + 1) THEN None
            ELSE IF /\ d <= Len(s) /\ s[d] = "." /\ e > d + 1
                    /\ WordBoundary(s, e)
            THEN <<SubSeq(s, a, b - 1), SubSeq(s, b + 1, d - 1),
                   SubSeq(s, d + 1, e - 1)>>
            ELSE IF WordBoundary(s, d)
            THEN <<SubSeq(s, a, b - 1), SubSeq(s, b + 1, d - 1), None>>
            ELSE None
        Patch(a, b, d) == Groups(a, b, d, SkipDigits(s, d + 1))
        Minor(a, b) == Patch(a, b, SkipDigits(s, b + 1))
        Major(a) == Minor(a, SkipDigits(s, a))
    IN  Major(IF i <= Len(s) /\ s[i] = "v" THEN i + 1 ELSE i)

\* int(major), int(minor), int(patch or 0)
VersionTuple(groups) ==
    <<ParseInt(groups[1]), ParseInt(groups[2]),
      IF groups[3] = None THEN 0 ELSE ParseInt(groups[3])>>

\* The least of a non-empty set of positions: where the leftmost match starts.
Leftmost(starts) == CHOOSE i \in starts : \A j \in starts : i <= j

\* SEMVER_RE.search(text): \bv?(\d+)\.(\d+)(?:\.(\d+))?\b, leftmost match.
SEMVER_RE(text) ==
    LET Search(starts) ==
            IF starts = {} THEN None ELSE VersionAt(text, Leftmost(starts))
    IN  Search({i \in 1..Len(text) :
                    WordBoundary(text, i) /\ VersionAt(text, i) # None})

parse_semver(text) ==
    LET Parsed(match) == IF match = None THEN None ELSE VersionTuple(match)
    IN  Parsed(SEMVER_RE(text))

\* DIFY_VERSION_LINE_RE.search(line): \bdify\s*version\b, IGNORECASE
DIFY_VERSION_LINE_RE(line) ==
    LET VersionWordAt(low, j) ==
            HasAt(low, <<"v","e","r","s","i","o","n">>, j) /\ WordBoundary(low, j + 7)
        Search(low) ==
            \E i \in 1..Len(low) :
                /\ WordBoundary(low, i)
                /\ HasAt(low, <<"d","i","f","y">>, i)
                /\ VersionWordAt(low, SkipSpaces(low, i + 4))
    IN  Search(Lower(line))

\* DIFY_VERSION_INLINE_RE.search(body):
\* \bdify\s*v?(\d+)\.(\d+)(?:\.(\d+))?\b, IGNORECASE, leftmost match.
DIFY_VERSION_INLINE_RE(body) ==
    LET MatchAt(low, i) == VersionAt(low, SkipSpaces(low, i + 4))
        First(low, starts) ==
            IF starts = {} THEN None ELSE MatchAt(low, Leftmost(starts))
        Search(low) ==
            First(low, {i \in 1..Len(low) :
                            /\ WordBoundary(low, i)
                            /\ HasAt(low, <<"d","i","f","y">>, i)
                            /\ MatchAt(low, i) # None})
    IN  Search(Lower(body))

RECURSIVE VersionFromLines(_, _)
\* The loop of extract_dify_version over the lines from k on: the version of
\* the first "dify version" line that parses, or None.
VersionFromLines(lines, k) ==
    LET Found(version) ==
            IF version # None THEN version ELSE VersionFromLines(lines, k + 1)
    IN  IF k > Len(lines) THEN None
        ELSE IF DIFY_VERSION_LINE_RE(lines[k])
        THEN Found(parse_semver(lines[k]))
        ELSE VersionFromLines(lines, k + 1)

\* The inline mention is searched before the lines.
extract_inline_first(body) ==
    LET Lines(version) ==
            IF version # None THEN version
            ELSE VersionFromLines(SplitLines(body), 1)
        Inline(match) == Lines(IF match # None THEN VersionTuple(match) ELSE None)
    IN  IF Len(body) = 0 THEN None
        ELSE Inline(DIFY_VERSION_INLINE_RE(body))

\* The first "dify version" line decides, with or without a version on it.
extract_of_first_labelled_line(body) ==
    LET Inline(match) == IF match # None THEN VersionTuple(match) ELSE None
        Of(lines, labelled) ==
            IF labelled # {}
            THEN parse_semver(lines[CHOOSE n \in labelled :
                                        \A k \in labelled : n <= k])
            ELSE Inline(DIFY_VERSION_INLINE_RE(body))
        OfLines(lines) ==
            Of(lines, {n \in 1..Len(lines) : DIFY_VERSION_LINE_RE(lines[n])})
    IN  IF Len(body) = 0 THEN None ELSE OfLines(SplitLines(body))

extract_dify_version(body) ==
    LET Inline(match) == IF match # None THEN VersionTuple(match) ELSE None
        Found(version) ==
            IF version # None THEN version
            ELSE Inline(DIFY_VERSION_INLINE_RE(body))
    IN  IF Len(body) = 0 THEN None
        ELSE Found(VersionFromLines(SplitLines(body), 1))

\* The versions compared as the texts "1.9.9" and "1.10.0" are, character
\* by character ("." ranks below every digit).
VersionLessAsText(a, b) ==
    LET Digits(n) ==
            IF n < 10 THEN <<n + 1>> ELSE <<(n \div 10) + 1, (n % 10) + 1>>
        Text(v) == Digits(v[1]) \o <<0>> \o Digits(v[2]) \o <<0>> \o Digits(v[3])
        Less(s, t) ==
            \E k \in 1..Len(t) :
                /\ k - 1 <= Len(s)
                /\ \A j \in 1..(k - 1) : s[j] = t[j]
                /\ k > Len(s) \/ s[k] < t[k]
    IN  Less(Text(a), Text(b))

\* a < b on version tuples (Python tuple comparison)
VersionLess(a, b) ==
    \/ a[1] < b[1]
    \/ a[1] = b[1] /\ a[2] < b[2]
    \/ a[1] = b[1] /\ a[2] = b[2] /\ a[3] < b[3]

----------------------------------------------------------------------------
(* Question detection.                                                     *)

LowerAll(texts) == {Lower(texts[n]) : n \in DOMAIN texts}

QuestionStartWords ==
    {<<"h","o","w">>, <<"w","h","a","t">>, <<"w","h","y">>, <<"c","a","n">>, <<"c","o","u","l","d">>, <<"i","s">>, <<"a","r","e">>, <<"d","o">>,
     <<"d","o","e","s">>, <<"d","i","d">>, <<"w","h","e","r","e">>, <<"w","h","e","n">>, <<"w","h","i","c","h">>, <<"w","h","o">>, <<"w","h","o","m">>, <<"h","e","l","p">>}

\* QUESTION_START_RE.match(title): ^\s*(how|what|...|help)\b, IGNORECASE
QUESTION_START_RE(title) ==
    LET WordAt(low, j) ==
            \E w \in QuestionStartWords :
                HasAt(low, w, j) /\ WordBoundary(low, j + Len(w))
        Match(low) == WordAt(low, SkipSpaces(low, 1))
    IN  Match(Lower(title))

QuestionMarkers ==
    {<<"h","o","w"," ","t","o"," ">>, <<"w","h","a","t"," ","i","s"," ">>, <<"c","a","n"," ","i"," ">>, <<"c","o","u","l","d"," ","i"," ">>, <<"a","n","y"," ","i","d","e","a">>,
     <<"a","n","y","o","n","e"," ","k","n","o","w">>, <<"n","e","e","d"," ","h","e","l","p">>, <<"i"," ","w","a","n","t"," ","t","o"," ","k","n","o","w">>, <<"p","l","e","a","s","e"," ","t","e","l","l"," ","m","e">>,
     <<"i","'","m"," ","w","o","n","d","e","r","i","n","g">>, <<"i"," ","a","m"," ","w","o","n","d","e","r","i","n","g">>, <<"i","s"," ","t","h","e","r","e"," ","a"," ","w","a","y">>,
     <<"i","s"," ","i","t"," ","p","o","s","s","i","b","l","e">>, <<"d","o","e","s"," ","a","n","y","o","n","e">>, <<"h","a","s"," ","a","n","y","o","n","e">>, <<"p","l","e","a","s","e"," ","h","e","l","p">>,
     <<"h","o","w"," ","c","a","n"," ","i">>, <<"h","o","w"," ","d","o"," ","i">>, <<"w","h","e","r","e"," ","c","a","n"," ","i">>}

\* seq[:n]
FirstN(seq, n) == SubSeq(seq, 1, IF Len(seq) < n THEN Len(seq) ELSE n)

\* The verdict of looks_like_question on the lower-cased labels, the
\* stripped title and the head of the body.
QuestionSignals(labels_lower, title, body_head) ==
    IF <<"q","u","e","s","t","i","o","n">> \in labels_lower \/ <<"s","u","p","p","o","r","t">> \in labels_lower
    THEN TRUE
    ELSE IF Contains(title, <<"?">>) \/ Contains(title, <<"<ff1f>">>)
    THEN TRUE
    ELSE IF QUESTION_START_RE(title)
    THEN TRUE
    ELSE \E marker \in QuestionMarkers : Contains(body_head, marker)

\* The markers are looked for in the whole body.
looks_like_question_in_whole_body(i) ==
    QuestionSignals(LowerAll(i.labels), Strip(i.title),
                    Lower(normalize_space(i.body)))

looks_like_question(i) ==
    QuestionSignals(LowerAll(i.labels), Strip(i.title),
                 Lower(normalize_space(
                    JoinWith(<<"\n">>, FirstN(SplitLines(i.body), 10)))))

----------------------------------------------------------------------------
(* Content quality (plugin repositories).                                  *)

SKIP_SECTION_HEADINGS == {<<"s","e","l","f"," ","c","h","e","c","k","s">>, <<"s","e","l","f"," ","c","h","e","c","k">>}

NON_RESPONSE_VALUES == {<<"_","n","o"," ","r","e","s","p","o","n","s","e","_">>, <<"n","/","a">>, <<"n","a">>, <<"n","o","n","e">>}

\* GENERIC_TITLE_RE.fullmatch(title), IGNORECASE: ^(bug|issue|...)$
GENERIC_TITLE_RE(title) ==
    Lower(title) \in
        {<<"b","u","g">>, <<"i","s","s","u","e">>, <<"h","e","l","p">>, <<"q","u","e","s","t","i","o","n">>, <<"e","r","r","o","r">>, <<"p","r","o","b","l","e","m">>,
         <<"b","u","g"," ","r","e","p","o","r","t">>, <<"h","e","l","p"," ","m","e">>, <<"f","i","x"," ","t","h","i","s">>, <<"n","o","t"," ","w","o","r","k","i","n","g">>,
         <<"d","o","e","s","n","'","t"," ","w","o","r","k">>, <<"d","o","e","s","n","t"," ","w","o","r","k">>, <<"p","l","e","a","s","e"," ","h","e","l","p">>, <<"r","e","q","u","e","s","t">>,
         <<"s","u","g","g","e","s","t","i","o","n">>}

\* PLACEHOLDER_RE.search(text), IGNORECASE:
\* \b(tbd|todo|n/?a|none|same as title|no idea)\b
PLACEHOLDER_RE(text) ==
    LET Search(low) ==
            \E w \in {<<"t","b","d">>, <<"t","o","d","o">>, <<"n","/","a">>, <<"n","a">>, <<"n","o","n","e">>,
                      <<"s","a","m","e"," ","a","s"," ","t","i","t","l","e">>, <<"n","o"," ","i","d","e","a">>} :
                ContainsWord(low, w)
    IN  Search(Lower(text))

\* The text of a heading line: group 1 of ^#{1,6}\s+(.*), stripped.
HeadingText(stripped) ==
    Strip(SubSeq(stripped,
                 SkipSpaces(stripped, SkipHashes(stripped, 1)),
                 Len(stripped)))

RECURSIVE SectionsFrom(_, _, _, _)
\* The loop of extract_template_sections from line k on, and its tail: the
\* sections it appends.  A section is <<heading, content>>.
SectionsFrom(lines, k, current_heading, current_lines) ==
    LET \* The loop body on a line, given the section the line would close.
        OnLine(closed, stripped) ==
            IF IsHeadingLine(stripped)
            THEN closed \o SectionsFrom(lines, k + 1, HeadingText(stripped), <<>>)
            ELSE SectionsFrom(lines, k + 1, current_heading,
                              Append(current_lines, lines[k]))
        From(closed) ==
            IF k > Len(lines) THEN closed ELSE OnLine(closed, Strip(lines[k]))
    IN  From(IF Len(current_heading) > 0
             THEN << <<current_heading, Strip(JoinWith(<<"\n">>, current_lines))>> >>
             ELSE <<>>)

extract_template_sections(body) == SectionsFrom(SplitLines(body), 1, <<>>, <<>>)

\* re.match(r"^[-*]\s*\[[ xX]\]", ln)
IsCheckboxLine(ln) ==
    LET BoxAt(j) ==
            /\ j + 2 <= Len(ln)
            /\ ln[j] = "["
            /\ ln[j + 1] \in {" ", "x", "X"}
            /\ ln[j + 2] = "]"
    IN  /\ Len(ln) >= 1
        /\ ln[1] \in {"-", "*"}
        /\ BoxAt(SkipSpaces(ln, 2))

\* [ln.strip() for ln in content.splitlines() if ln.strip()]
NonBlankLines(content) ==
    LET NonBlank(ln) == Len(ln) > 0
        Stripped(lines) == AsTuple([n \in 1..Len(lines) |-> Strip(lines[n])])
    IN  SelectSeq(Stripped(SplitLines(content)), NonBlank)

\* Whether the loop of effective_content keeps a section.
KeepsSection(section) ==
    LET Keeps(heading, content_clean, lines) ==
            /\ Lower(heading) \notin SKIP_SECTION_HEADINGS
            /\ Len(content_clean) > 0
            /\ Lower(content_clean) \notin NON_RESPONSE_VALUES
            /\ ~(/\ Len(lines) > 0
                 /\ \A n \in 1..Len(lines) : IsCheckboxLine(lines[n]))
    IN  Keeps(section[1], normalize_space(section[2]),
              NonBlankLines(section[2]))

effective_content(body) ==
    LET Parts(kept) ==
            AsTuple([n \in 1..Len(kept) |-> normalize_space(kept[n][2])])
        Joined(parts) ==
            IF Len(parts) > 0 THEN JoinWith(<<" ">>, parts)
            ELSE normalize_space(body)
        Content(sections) ==
            IF Len(sections) = 0 THEN normalize_space(body)
            ELSE Joined(Parts(SelectSeq(sections, KeepsSection)))
    IN  Content(extract_template_sections(body))

RECURSIVE dedupe(_)
\* The items in order, each at its first occurrence only.
dedupe(items) ==
    LET Add(front, item) ==
            IF \E n \in 1..Len(front) : front[n] = item
            THEN front
            ELSE Append(front, item)
    IN  IF Len(items) = 0 THEN <<>>
        ELSE Add(dedupe(SubSeq(items, 1, Len(items) - 1)), items[Len(items)])

\* The checks exclude each other: the reason of the first whose condition
\* holds.
CollectFirst(checks) ==
    LET Holds(check) == check[1]
        First(kept) == IF Len(kept) = 0 THEN <<>> ELSE <<kept[1][2]>>
    IN  First(SelectSeq(checks, Holds))

\* The reasons of a sequence of <<condition, reason>> whose condition holds.
Collect(checks) ==
    LET Holds(check) == check[1]
        Reasons(kept) == AsTuple([n \in 1..Len(kept) |-> kept[n][2]])
    IN  Reasons(SelectSeq(checks, Holds))

DetailMarkers ==
    {<<"s","t","e","p","s">>, <<"r","e","p","r","o","d","u","c","e">>, <<"e","x","p","e","c","t","e","d">>, <<"a","c","t","u","a","l">>, <<"e","r","r","o","r">>, <<"l","o","g">>,
     <<"s","c","r","e","e","n","s","h","o","t">>, <<"u","s","e"," ","c","a","s","e">>, <<"e","n","v","i","r","o","n","m","e","n","t">>, <<"v","e","r","s","i","o","n">>}

\* The number of sections unclear_reasons counts as filled.
FilledSections(sections) ==
    LET Is(c, clean) ==
            /\ Lower(clean) \notin NON_RESPONSE_VALUES
            /\ Len(clean) > 0
            /\ Lower(c) \notin SKIP_SECTION_HEADINGS
        Filled(section) == Is(section[2], normalize_space(section[2]))
    IN  Len(SelectSeq(sections, Filled))

\* The checks of unclear_reasons in the order of its statements, each
\* <<condition, reason>>: the title, the empty body, and the four checks of
\* a body that is not empty.
UnclearChecks(title_clean, body_clean, content_len, sections, marker_hits) ==
    << <<Len(title_clean) < 8 \/ GENERIC_TITLE_RE(title_clean),
         "Title is too short or generic.">>,
       <<Len(body_clean) = 0, "Description is empty.">>,
       <<content_len < 60,
         "Description is too short to understand the task.">>,
       <<PLACEHOLDER_RE(body_clean),
         "Description contains placeholders instead of concrete details.">>,
       <<Len(sections) > 0 /\ FilledSections(sections) <= 1,
         "Almost all template sections are empty or marked _No response_.">>,
       <<content_len < 180 /\ marker_hits < 2,
         "Description lacks enough concrete context for maintainers.">> >>

\* The empty body does not end the checks.
ReasonsWithoutReturn(checks) == dedupe(Collect(checks))

\* The checks of a body that is not empty exclude each other: the first
\* reason only.
ReasonsOfFirstCheck(checks) ==
    LET First(reasons) ==
            IF Len(reasons) > 1 /\ ~checks[2][1] THEN <<reasons[1]>>
            ELSE reasons
    IN  First(Collect(checks))

\* The reasons unclear_reasons returns: those of the first two checks if the
\* body is empty (return reasons), else those of all (return
\* dedupe(reasons)).
ReasonsOfChecks(checks) ==
    IF checks[2][1] THEN Collect(SubSeq(checks, 1, 2))
    ELSE dedupe(Collect(checks))

unclear_reasons(i) ==
    LET MarkerHits(body_lower) ==
            Cardinality({m \in DetailMarkers : Contains(body_lower, m)})
        OfBody(body_clean) ==
            ReasonsOfChecks(
                UnclearChecks(normalize_space(i.title), body_clean,
                              Len(effective_content(i.body)),
                              extract_template_sections(i.body),
                              MarkerHits(Lower(body_clean))))
    IN  OfBody(normalize_space(i.body))

----------------------------------------------------------------------------
(* Standards of the core-like repositories.                                *)

\* BUG_MARKERS_RE.search(text), IGNORECASE:
\* \b(bug|error|exception|traceback|crash|fail(?:s|ure)?)\b
BUG_MARKERS_RE(text) ==
    LET Search(low) ==
            \E w \in {<<"b","u","g">>, <<"e","r","r","o","r">>, <<"e","x","c","e","p","t","i","o","n">>, <<"t","r","a","c","e","b","a","c","k">>, <<"c","r","a","s","h">>,
                      <<"f","a","i","l">>, <<"f","a","i","l","s">>, <<"f","a","i","l","u","r","e">>} :
                ContainsWord(low, w)
    IN  Search(Lower(text))

\* DISRESPECTFUL_RE.search(text), IGNORECASE
DISRESPECTFUL_RE(text) ==
    LET Search(low) ==
            \E w \in {<<"i","d","i","o","t">>, <<"s","t","u","p","i","d">>, <<"d","u","m","b">>, <<"f","u","c","k">>, <<"s","h","i","t">>,
                      <<"b","i","t","c","h">>} :
                ContainsWord(low, w)
    IN  Search(Lower(text))

is_bug_like(i) ==
    IF <<"b","u","g">> \in LowerAll(i.labels) THEN TRUE
    ELSE BUG_MARKERS_RE(Lower(i.title \o <<"\n">> \o i.body))

is_feature_like(i) ==
    LET Feature(labels_lower, combined) ==
            IF <<"f","e","a","t","u","r","e">> \in labels_lower \/ <<"e","n","h","a","n","c","e","m","e","n","t">> \in labels_lower
            THEN TRUE
            ELSE \E marker \in {<<"f","e","a","t","u","r","e"," ","r","e","q","u","e","s","t">>, <<"f","e","a","t","u","r","e">>,
                                <<"e","n","h","a","n","c","e","m","e","n","t">>, <<"p","r","o","p","o","s","a","l">>, <<"s","u","g","g","e","s","t","i","o","n">>} :
                    Contains(combined, marker)
    IN  Feature(LowerAll(i.labels), Lower(i.title \o <<"\n">> \o i.body))

FeatureStoryHeading ==
    <<"i","s"," ","t","h","i","s"," ","r","e","q","u","e","s","t"," ","r","e","l","a","t","e","d"," ","t","o"," ","a"," ","c","h","a","l","l","e","n","g","e"," ","y","o","u","'","r","e"," ","e","x","p","e","r","i","e","n","c","i","n","g","?">>

\* The lookahead (?=\n#+\s*2\.|\Z) at position e.
StoryEndsAt(s, e) ==
    LET SecondAt(h) == h > e + 1 /\ HasAt(s, <<"2",".">>, SkipSpaces(s, h))
    IN  \/ e = Len(s) + 1
        \/ /\ e <= Len(s)
           /\ s[e] = "\n"
           /\ SecondAt(SkipHashes(s, e + 1))

\* Where the heading part #+\s*1\.\s*Is this ... experiencing\? that starts
\* at position i ends (the position after it), or 0 if it does not match.
StoryHeadingEnd(low, i) ==
    LET TextAt(k) ==
            IF HasAt(low, FeatureStoryHeading, k)
            THEN k + Len(FeatureStoryHeading)
            ELSE 0
        NumberAt(j) ==
            IF HasAt(low, <<"1",".">>, j) THEN TextAt(SkipSpaces(low, j + 2)) ELSE 0
    IN  IF i <= Len(low) /\ low[i] = "#"
        THEN NumberAt(SkipSpaces(low, SkipHashes(low, i)))
        ELSE 0

\* FEATURE_STORY_SECTION_RE.search(body): group 1 of the leftmost match, or
\* None.  (?is): "." matches a line break, letters match in any case; both
\* ".*?" are lazy: the first blank line after the heading, then the shortest
\* text up to a heading numbered 2 or the end of the body.
FEATURE_STORY_SECTION_RE(body) ==
    LET \* Where a blank line follows the heading that starts at i.
        Blank(low, i) ==
            {m \in StoryHeadingEnd(low, i)..Len(body) : HasAt(body, <<"\n","\n">>, m)}
        \* Group 1 after the blank line at m: up to the first end after it.
        Group(m) ==
            <<SubSeq(body, m + 2,
                     Leftmost({e \in (m + 2)..(Len(body) + 1) :
                                    StoryEndsAt(body, e)}) - 1)>>
        First(low, starts) ==
            IF starts = {} THEN None
            ELSE Group(Leftmost(Blank(low, Leftmost(starts))))
        Search(low) ==
            First(low, {i \in 1..Len(body) :
                            StoryHeadingEnd(low, i) > 0 /\ Blank(low, i) # {}})
    IN  Search(Lower(body))

extract_feature_story(body) ==
    LET Story(match) == IF match = None THEN <<>> ELSE Strip(match[1])
    IN  Story(FEATURE_STORY_SECTION_RE(body))

feature_request_quality(i) ==
    LET Quality(body_lower, body_clean, story) ==
            IF Len(body_clean) = 0 THEN FALSE
            ELSE IF /\ Len(story) > 0
                    /\ Lower(story) \notin NON_RESPONSE_VALUES
                    /\ Len(story) >= 60
            THEN TRUE
            ELSE IF /\ Contains(body_lower, <<"e","x","a","m","p","l","e">>)
                    /\ \/ Contains(body_lower, <<"e","x","p","e","c","t","e","d"," ","o","u","t","p","u","t">>)
                       \/ Contains(body_lower, <<"e","x","p","e","c","t","e","d">>)
            THEN TRUE
            ELSE IF \E w \in {<<"a","d","d">>, <<"s","u","p","p","o","r","t">>, <<"a","l","l","o","w">>, <<"e","n","a","b","l","e">>,
                              <<"e","x","p","o","s","e">>, <<"v","i","s","u","a","l","i","z","e">>, <<"c","u","s","t","o","m","i","z","e">>} :
                        ContainsWord(body_lower, w)
            THEN Len(body_clean) >= 120
            ELSE FALSE
    IN  Quality(Lower(i.body), normalize_space(i.body),
                normalize_space(extract_feature_story(i.body)))

\* re.search(r"^\s*1[.)]\s+", text, re.MULTILINE)
HasNumberedItem(text) ==
    LET ItemAt(j) ==
            /\ j + 2 <= Len(text)
            /\ text[j] = "1"
            /\ text[j + 1] \in {".", ")"}
            /\ IsSpace(text[j + 2])
    IN  \E p \in 1..Len(text) :
            /\ p = 1 \/ text[p - 1] = "\n"
            /\ ItemAt(SkipSpaces(text, p))

\* re.search(r"\blog", text)
HasLogWord(text) ==
    \E p \in 1..Len(text) : HasAt(text, <<"l","o","g">>, p) /\ WordBoundary(text, p)

\* The entries of `required`, in order: <<label, some pattern matches>>.
RequiredBugFields(body_lower) ==
    << <<"Include Dify version.",
         ContainsWord(body_lower, <<"d","i","f","y"," ","v","e","r","s","i","o","n">>)
            \/ ContainsWord(body_lower, <<"v","e","r","s","i","o","n">>)>>,
       <<"Include deployment mode (Cloud or Self Hosted).",
         \/ ContainsWord(body_lower, <<"c","l","o","u","d">>)
         \/ Contains(body_lower, <<"s","e","l","f","-","h","o","s","t","e","d">>)
         \/ Contains(body_lower, <<"s","e","l","f"," ","h","o","s","t","e","d">>)
         \/ ContainsWord(body_lower, <<"d","o","c","k","e","r">>)
         \/ ContainsWord(body_lower, <<"s","o","u","r","c","e">>)>>,
       <<"Include steps to reproduce.",
         \/ Contains(body_lower, <<"s","t","e","p","s"," ","t","o"," ","r","e","p","r","o","d","u","c","e">>)
         \/ ContainsWord(body_lower, <<"r","e","p","r","o","d","u","c","e">>)
         \/ HasNumberedItem(body_lower)>>,
       <<"Include expected behavior.",
         Contains(body_lower, <<"e","x","p","e","c","t","e","d"," ","b","e","h","a","v","i","o","r">>)
            \/ ContainsWord(body_lower, <<"e","x","p","e","c","t","e","d">>)>> >>

core_standard_violations(i) ==
    LET Violations(title_clean, body_clean, body_lower, bug_like, required) ==
            dedupe(Collect(<<
                <<Len(title_clean) < 12 \/ GENERIC_TITLE_RE(title_clean),
                  "Use a clear and descriptive issue title.">>,
                <<Len(body_clean) < 120,
                  "Provide a detailed issue description with enough context.">>,
                <<DISRESPECTFUL_RE(i.title \o <<"\n">> \o i.body),
                  "Use respectful, professional language (Code of Conduct).">>,
                <<bug_like /\ ~required[1][2], required[1][1]>>,
                <<bug_like /\ ~required[2][2], required[2][1]>>,
                <<bug_like /\ ~required[3][2], required[3][1]>>,
                <<bug_like /\ ~required[4][2], required[4][1]>>,
                <<bug_like /\ ~(\/ Contains(body_lower, <<"a","c","t","u","a","l"," ","b","e","h","a","v","i","o","r">>)
                                \/ ContainsWord(body_lower, <<"a","c","t","u","a","l">>)
                                \/ HasLogWord(body_lower)
                                \/ ContainsWord(body_lower, <<"e","r","r","o","r">>)
                                \/ Contains(body_lower, <<"t","r","a","c","e","b","a","c","k">>)),
                  "Include actual behavior and logs/error details when possible.">>,
                <<is_feature_like(i)
                    /\ ~(\E marker \in {<<"u","s","e"," ","c","a","s","e">>, <<"s","c","e","n","a","r","i","o">>,
                                         <<"b","u","s","i","n","e","s","s"," ","v","a","l","u","e">>,
                                         <<"w","h","y"," ","t","h","i","s"," ","i","s"," ","n","e","e","d","e","d">>, <<"m","o","t","i","v","a","t","i","o","n">>} :
                            Contains(body_lower, marker))
                    /\ ~feature_request_quality(i),
                  "Describe the feature use case and expected value.">>
            >>))
        OfBody(body_lower) ==
            Violations(normalize_space(i.title), normalize_space(i.body),
                       body_lower, is_bug_like(i),
                       RequiredBugFields(body_lower))
    IN  OfBody(Lower(i.body))

----------------------------------------------------------------------------
(* Comments.  A comment is the sequence of its lines and a line the         *)
(* sequence of its pieces, the substituted values kept as they are; the    *)
(* empty comment "" is the empty sequence.  A reason built by an f-string  *)
(* is likewise the sequence of its pieces.  The backquote, which a TLA+    *)
(* string cannot hold, is written by its code point, "<0060>".             *)

FORUM_URL == "https://forum.dify.ai/"

DISCORD_URL == "https://discord.com/invite/FngNHpbcY7"

BUG_TEMPLATE_URL ==
    "https://github.com/langgenius/dify/blob/3aecceff27c6b712628ad463c6e6ac15b8527ebe/.github/ISSUE_TEMPLATE/bug_report.yml"

CODE_OF_CONDUCT_URL ==
    "https://github.com/langgenius/dify/blob/4c1ad40f8e8a6ee58a958330558f2178b7e47fa7/.github/CODE_OF_CONDUCT.md"

CONTRIBUTING_URL ==
    "https://github.com/langgenius/dify/blob/25ac69afc5ac9324079be5f0d02b2a2b03dcc784/CONTRIBUTING.md"

\* "\n".join(f"- {item}" for item in reasons), line by line
\* The bullets in the reverse of the order of the reasons.
ReasonLinesReversed(reasons) ==
    AsTuple([n \in 1..Len(reasons) |-> <<"- ", reasons[Len(reasons) - n + 1]>>])

ReasonLines(reasons) == AsTuple([n \in 1..Len(reasons) |-> <<"- ", reasons[n]>>])

\* reason_lines or default
ReasonsBlock(reasons, default) ==
    IF Len(reasons) > 0 THEN ReasonLines(reasons) ELSE << <<default>> >>

Greeting(author) == <<"Hi @", author, ", thanks for opening this issue.">>

render_comment(i, category, reasons) ==
    IF category = "question" THEN
        << Greeting(i.author),
           <<>>,
           <<"### Why this is being closed">>,
           <<"This issue tracker is reserved for actionable bugs/tasks. This report looks like a usage question.">>,
           <<>>,
           <<"### Next steps">>,
           <<"Please use the community channels instead:">>,
           <<"- ", FORUM_URL>>,
           <<"- ", DISCORD_URL>>,
           <<>>,
           <<"If this is actually a bug/task, please open a new issue with clear reproducible details.">>,
           <<>>,
           <<"Thanks for understanding and for supporting Dify.">> >>
    ELSE IF category = "language" THEN
        << Greeting(i.author),
           <<>>,
           <<"### Why this is being closed">>,
           <<"Dify issue tracking requires English-only issue title and description for consistent collaboration.">>,
           <<>>,
           <<"### Next steps">>,
           <<"Please open a new issue in English and include clear details so maintainers can help efficiently.">>,
           <<>>,
           <<"Thanks for understanding and for your support.">> >>
    ELSE IF category = "unclear" THEN
        << Greeting(i.author),
           <<>>,
           <<"### Why this is being closed">>,
           <<"We could not extract an actionable task from the current report.">>,
           <<>> >>
        \o ReasonsBlock(reasons, "- The issue content is not clear enough to triage.")
        \o << <<>>,
              <<"### Next steps">>,
              <<"Please open a new issue that includes:">>,
              <<"- A clear problem statement">>,
              <<"- Reproducible steps or concrete scope">>,
              <<"- Expected result">>,
              <<"- Actual result and logs/screenshots when available">>,
              <<>>,
              <<"Thanks for understanding and for helping keep the issue tracker actionable.">> >>
    ELSE IF category = "outdated-version" THEN
        << Greeting(i.author),
           <<>>,
           <<"### Why this is being closed">>,
           <<"This report targets an outdated Dify version.">>,
           <<>> >>
        \o (IF Len(reasons) > 0 THEN ReasonLines(reasons)
            ELSE << <<"- Reported Dify version is below v",
                      MIN_DIFY_VERSION_STR, ".">> >>)
        \o << <<>>,
              <<"### Next steps">>,
              <<"Please upgrade to the latest Dify release and retest. If the issue still occurs on the latest version, open a new issue with updated details.">>,
              <<>>,
              <<"Thanks for understanding and for supporting Dify.">> >>
    ELSE IF category = "core-standards" THEN
        << Greeting(i.author),
           <<>>,
           <<"### Why this is being closed">>,
           <<"This report does not yet meet the required issue standard for ",
             "<0060>", i.repo, "<0060>", ".">>,
           <<>> >>
        \o ReasonsBlock(reasons, "- Required issue details are missing.")
        \o << <<>>,
              <<"### Relevant guidelines">>,
              <<"- Bug report template: ", BUG_TEMPLATE_URL>>,
              <<"- Code of Conduct / Language Policy: ", CODE_OF_CONDUCT_URL>>,
              <<"- Contributing guide: ", CONTRIBUTING_URL>>,
              <<>>,
              <<"### Next steps">>,
              <<"Please open a new issue in English and include all required details from the bug template/contributing guide.">>,
              <<>>,
              <<"Thanks for understanding and for your contribution.">> >>
    ELSE <<>>

----------------------------------------------------------------------------
(* Inputs.                                                                 *)

\* Most labels of an issue and most linked pull requests.
MaxLabels == 1

MaxLinkedPrs == 1

Repos == SUPPORTED_REPOS \cup {"octocat/hello-world"}

States == {<<"O","P","E","N">>, <<"o","p","e","n">>, <<"C","L","O","S","E","D">>}

Associations ==
    {<<"O","W","N","E","R">>, <<"m","e","m","b","e","r">>, <<"C","O","L","L","A","B","O","R","A","T","O","R">>, <<"C","o","n","t","r","i","b","u","t","o","r">>, <<"N","O","N","E">>,
     <<"F","I","R","S","T","_","T","I","M","E","_","C","O","N","T","R","I","B","U","T","O","R">>}

LabelNames == {<<"b","u","g">>, <<"Q","u","e","s","t","i","o","n">>}

LabelLists == UNION {[1..n -> LabelNames] : n \in 0..MaxLabels}

LinkedPrLists ==
    {[n \in 1..k |-> "https://github.com/langgenius/dify/pull/7"] :
        k \in 0..MaxLinkedPrs}

Titles ==
    {<<"H","o","w"," ","d","o"," ","I"," ","c","o","n","f","i","g","u","r","e"," ","S","S","O","?">>, <<"W","o","r","k","f","l","o","w"," ","n","o","d","e"," ","o","u","t","p","u","t"," ","i","s"," ","w","r","o","n","g">>, <<"b","u","g">>}

ReportLines ==
    <<"D","i","f","y"," ","v","e","r","s","i","o","n",":"," ","1",".","1","0",".","0",","," ","s","e","l","f","-","h","o","s","t","e","d"," ","w","i","t","h"," ","d","o","c","k","e","r","."," ","S","t","e","p","s"," ","t","o"," ","r","e","p","r","o","d","u","c","e",":"," ","o","p","e","n"," ","a"," ","w","o","r","k","f","l","o","w"," ","a","n","d"," ","r","u","n"," ","t","h","e"," ","l","a","s","t"," ","n","o","d","e"," ","t","w","i","c","e","."," ","E","x","p","e","c","t","e","d"," ","t","h","e"," ","r","u","n"," ","t","o"," ","f","i","n","i","s","h",","," ","a","c","t","u","a","l"," ","r","e","s","u","l","t"," ","i","s"," ","a"," ","t","i","m","e","o","u","t"," ","i","n"," ","t","h","e"," ","l","o","g",".">>

\* Bodies of one or two lines: versions below, at and above the minimum,
\* ideographs (in BoundaryLine one character of five), a question, short and
\* brief descriptions, whitespace only, and a full report.
Bodies ==
    LET OldVersionLine == <<"D","i","f","y"," ","v","e","r","s","i","o","n",":"," ","1",".","5",".","0">>
        NearVersionLine == <<"D","i","f","y"," ","v","e","r","s","i","o","n",":"," ","1",".","9",".","9">>
        NewerVersionLine == <<"D","i","f","y"," ","v","e","r","s","i","o","n",":"," ","1",".","1","0",".","1">>
        MajorVersionLine == <<"D","i","f","y"," ","v","e","r","s","i","o","n",":"," ","2",".","0">>
        CjkLine == <<"<4e2d>","<6587>","<4e2d>","<6587>","<4e2d>","<6587>","<4e2d>","<6587>">>
        BoundaryLine == <<"<4e2d>","a","b","c","d">>
        QuestionLine == <<"h","o","w"," ","c","a","n"," ","i"," ","f","i","x"," ","i","t">>
        ShortLine == <<"i","t"," ","f","a","i","l","s">>
        BlankLines == <<" "," ","\n"," ">>
        BriefLine ==
            <<"E","x","p","o","r","t"," ","f","a","i","l","s"," ","w","i","t","h"," ","a","n"," ","e","r","r","o","r"," ","o","n"," ","D","i","f","y"," ","v","e","r","s","i","o","n"," ","1",".","5",".","0",","," ","t","h","e"," ","l","o","g"," ","o","f"," ","t","h","e"," ","r","u","n"," ","i","s"," ","a","t","t","a","c","h","e","d",".">>
    IN  {<<>>, OldVersionLine, CjkLine, QuestionLine, ShortLine, BriefLine,
         ReportLines, NearVersionLine, NewerVersionLine, MajorVersionLine,
         BoundaryLine, BlankLines,
         JoinWith(<<"\n">>, <<OldVersionLine, ReportLines>>),
         JoinWith(<<"\n">>, <<ReportLines, OldVersionLine>>),
         JoinWith(<<"\n">>, <<CjkLine, ReportLines>>),
         JoinWith(<<"\n">>, <<CjkLine, OldVersionLine>>),
         JoinWith(<<"\n">>, <<QuestionLine, OldVersionLine>>),
         JoinWith(<<"\n">>, <<CjkLine, QuestionLine>>),
         JoinWith(<<"\n">>, <<QuestionLine, ReportLines>>)}

Issues ==
    [repo : Repos, number : {7}, title : Titles, body : Bodies,
     author : {"alice"}, labels : LabelLists, state : States,
     url : {"https://github.com/langgenius/dify/issues/7"},
     author_association : Associations, linked_prs : LinkedPrLists]

----------------------------------------------------------------------------
(* The decision.                                                           *)

\* What the classifiers read of an issue.
TextOf(i) == [title |-> i.title, body |-> i.body, labels |-> i.labels]

\* The verdicts of the classifiers, evaluated once for each text of the
\* inputs.
Classified ==
    [t \in [title : Titles, body : Bodies, labels : LabelLists] |->
        [combined_ratio |-> cjk_ratio(language_check_text(t)),
         body_ratio |-> cjk_ratio(sanitize_body_for_cjk(t.body)),
         is_question |-> looks_like_question(t),
         unclear_reasons |-> unclear_reasons(t),
         reported_version |-> extract_dify_version(t.body),
         violations |-> core_standard_violations(t)]] @@ <<>>

\* f"{ratio:.1%}": the percentage to one decimal, <<units, tenths>>, rounded
\* half to even on the exact fraction.
Percent1(ratio) ==
    LET Digits(v) == <<v \div 10, v % 10>>
        Rounded(q, r) ==
            IF 2 * r > ratio.den \/ (2 * r = ratio.den /\ q % 2 = 1)
            THEN q + 1 ELSE q
    IN  Digits(Rounded((ratio.num * 1000) \div ratio.den,
                       (ratio.num * 1000) % ratio.den))

Decision(action, category, reasons, comment) ==
    [action |-> action, category |-> category, reasons |-> reasons,
     comment |-> comment]

NoDecision == Decision("", "", <<>>, <<>>)

\* The statements of decide in order, each "if guard: return decision" as
\* <<guard, decision>>; the statements of the plugin block carry its
\* condition, and the final return is the last rule.
Rules(i) ==
    LET Statements(verdicts, ratio, association) ==
            LET has_cjk == AtOrAboveThreshold(ratio)
                is_question == verdicts.is_question
                language_reasons ==
                    << <<"CJK ratio is ", Percent1(ratio), "% (>= ",
                         CJK_RATIO_THRESHOLD, "%).">> >>
                plugin_question ==
                    <<"Issue appears to be a question rather than an actionable task.">>
                core_question ==
                    <<"Issue appears to be a question rather than an actionable bug/task.">>
                reported_version == verdicts.reported_version
                version_reasons ==
                    << <<"Reported Dify version is v", reported_version,
                         ", which is below v", MIN_DIFY_VERSION_STR, ".">> >>
            IN  << <<i.repo \notin SUPPORTED_REPOS,
                     Decision("skip", "unsupported-repo",
                              << <<"Repository '", i.repo,
                                   "' is not supported by this skill.">> >>, <<>>)>>,
                   <<Upper(i.state) # <<"O","P","E","N">>,
                     Decision("skip", "not-open",
                              << <<"Issue state is ", i.state,
                                   ". No moderation action required.">> >>, <<>>)>>,
                   <<i.repo \in PLUGIN_REPOS /\ has_cjk,
                     Decision("close", "language", language_reasons,
                              render_comment(i, "language", language_reasons))>>,
                   <<i.repo \in PLUGIN_REPOS /\ is_question,
                     Decision("close", "question", plugin_question,
                              render_comment(i, "question", plugin_question))>>,
                   <<i.repo \in PLUGIN_REPOS /\ Len(verdicts.unclear_reasons) > 0,
                     Decision("close", "unclear", verdicts.unclear_reasons,
                              render_comment(i, "unclear", verdicts.unclear_reasons))>>,
                   <<i.repo \in PLUGIN_REPOS,
                     Decision("none", "pass",
                              <<"Issue appears actionable and follows repository moderation rules.">>,
                              <<>>)>>,
                   <<i.repo \in CORE_LIKE_REPOS /\ Len(i.linked_prs) > 0,
                     Decision("skip", "linked-pr",
                              << <<"Issue has ", Len(i.linked_prs),
                                   " linked PR(s); skip review per policy.">> >>, <<>>)>>,
                   <<i.repo \in CORE_LIKE_REPOS /\ association \in SKIP_ASSOCIATIONS,
                     Decision("skip", "trusted-author",
                              << <<"Author association is ", association,
                                   "; skip review per policy.">> >>, <<>>)>>,
                   <<has_cjk,
                     Decision("close", "language", language_reasons,
                              render_comment(i, "language", language_reasons))>>,
                   <<is_question,
                     Decision("close", "question", core_question,
                              render_comment(i, "question", core_question))>>,
                   <</\ i.repo = CORE_REPO
                     /\ reported_version # None
                     /\ VersionLess(reported_version, MIN_DIFY_VERSION),
                     Decision("close", "outdated-version", version_reasons,
                              render_comment(i, "outdated-version", version_reasons))>>,
                   <<Len(verdicts.violations) > 0,
                     Decision("close", "core-standards", verdicts.violations,
                              render_comment(i, "core-standards", verdicts.violations))>>,
                   <<TRUE,
                     Decision("none", "pass",
                              <<"Issue meets baseline moderation and quality standards.">>,
                              <<>>)>> >>
        Of(verdicts) ==
            Statements(verdicts,
                       RatioMax(verdicts.combined_ratio, verdicts.body_ratio),
                       Upper(i.author_association))
    IN  Of(Classified[TextOf(i)])

\* The decision of the first rule whose guard holds; NoDecision stands for
\* the None of a function that returns nothing.
FirstApplicable(rules) ==
    IF \E k \in 1..Len(rules) : rules[k][1]
    THEN rules[CHOOSE k \in 1..Len(rules) :
                    rules[k][1] /\ \A j \in 1..(k - 1) : ~rules[j][1]][2]
    ELSE NoDecision

\* Variants of decide with a plausible slip in the order or the guards of
\* its statements; each must break the property that names it.

\* The rules with rules a and b exchanged.
Swapped(rules, a, b) ==
    [rules EXCEPT ![a] = rules[b], ![b] = rules[a]]

\* The rules without rule k.
Without(rules, k) == SubSeq(rules, 1, k - 1) \o SubSeq(rules, k + 1, Len(rules))

\* The final return is missing.
decide_without_final_return(i) ==
    LET rules == Rules(i)
    IN  FirstApplicable(Without(rules, Len(rules)))

\* The state is checked after the plugin block instead of before it.
decide_state_after_plugin(i) ==
    LET rules == Rules(i)
    IN  FirstApplicable(<<rules[1]>> \o SubSeq(rules, 3, 6) \o <<rules[2]>>
                            \o SubSeq(rules, 7, Len(rules)))

\* The state is checked before the repository.
decide_state_first(i) == FirstApplicable(Swapped(Rules(i), 1, 2))

\* The author association is checked before the linked pull requests.
decide_author_before_linked_pr(i) == FirstApplicable(Swapped(Rules(i), 7, 8))

\* On plugin repositories the question is checked before the language.
decide_plugin_question_first(i) == FirstApplicable(Swapped(Rules(i), 3, 4))

\* On plugin repositories the reasons are checked before the question.
decide_plugin_unclear_first(i) == FirstApplicable(Swapped(Rules(i), 4, 5))

\* The plugin block does not return for an issue that passes.
decide_plugin_falls_through(i) == FirstApplicable(Without(Rules(i), 6))

\* The plugin block closes as unclear without testing the reasons.
decide_unclear_untested(i) ==
    LET rules == Rules(i)
    IN  FirstApplicable([rules EXCEPT ![5] = <<rules[6][1], rules[5][2]>>])

\* The language is checked before the author association.
decide_language_before_author(i) == FirstApplicable(Swapped(Rules(i), 8, 9))

\* The standards are checked before the version.
decide_standards_before_version(i) ==
    FirstApplicable(Swapped(Rules(i), 11, 12))

\* The linked pull requests and the author association are checked before
\* the plugin block, whatever the repository.
decide_authors_before_plugin(i) ==
    LET rules == Rules(i)
    IN  FirstApplicable(
            SubSeq(rules, 1, 2)
            \o << <<Len(i.linked_prs) > 0, rules[7][2]>>,
                  <<Upper(i.author_association) \in SKIP_ASSOCIATIONS,
                    rules[8][2]>> >>
            \o SubSeq(rules, 3, Len(rules)))

\* The state of the issue is not checked.
decide_whatever_state(i) == FirstApplicable(Without(Rules(i), 2))

decide(i) == FirstApplicable(Rules(i))

----------------------------------------------------------------------------
(* One run of the decision engine on one issue.                            *)

\* No run of main, and no function applied on its own.
NoRun ==
    /\ args = None /\ target = None /\ calls = <<>>
    /\ stdout = <<>> /\ stderr = <<>> /\ exit_status = None

NoCall == call = None /\ result = None

\* No review of a pull request.
NoReview ==
    /\ workdir = None /\ original_branch = "" /\ pr_branch = ""
    /\ pr_data = None /\ results = <<>> /\ approved = FALSE

Init ==
    /\ issue \in Issues
    /\ decision = NoDecision
    /\ pc = "start"
    /\ NoRun
    /\ NoCall
    /\ NoReview

\* decision = decide(issue)
Decide ==
    /\ pc = "start"
    /\ decision' = decide(issue)
    /\ pc' = "done"
    /\ UNCHANGED <<issue, mainVars, callVars, reviewVars>>

Next == Decide

Spec == Init /\ [][Next]_vars

----------------------------------------------------------------------------
(* Properties of decide.  The issue read is the input of the run and the   *)
(* decision is set once decide has returned (pc = "done").                 *)

Returned == pc = "done"

Actions == {"skip", "close", "none"}

Categories ==
    {"unsupported-repo", "not-open", "language", "question", "unclear",
     "outdated-version", "core-standards", "linked-pr", "trusted-author",
     "pass"}

Is(action, category) ==
    decision.action = action /\ decision.category = category

\* The issue is open, in any letter case.
IsOpen == Upper(issue.state) = <<"O","P","E","N">>

InPluginRepo == issue.repo \in PLUGIN_REPOS

InCoreLikeRepo == issue.repo \in CORE_LIKE_REPOS

\* The ratio decide flags the language on, and the other verdicts it reads.
Ratio ==
    RatioMax(Classified[TextOf(issue)].combined_ratio,
             Classified[TextOf(issue)].body_ratio)

OverThreshold == Ratio.num * 100 >= 20 * Ratio.den

IsQuestion == Classified[TextOf(issue)].is_question

UnclearReasons == Classified[TextOf(issue)].unclear_reasons

ReportedVersion == Classified[TextOf(issue)].reported_version

Violations == Classified[TextOf(issue)].violations

\* The version rule applies: flagship repository, a version below 1.10.0.
Outdated ==
    /\ issue.repo = CORE_REPO
    /\ ReportedVersion # None
    /\ VersionLess(ReportedVersion, <<1, 10, 0>>)

HasLinkedPr == Len(issue.linked_prs) > 0

TrustedAuthor ==
    Lower(issue.author_association)
        \in {<<"o","w","n","e","r">>, <<"m","e","m","b","e","r">>, <<"c","o","l","l","a","b","o","r","a","t","o","r">>, <<"c","o","n","t","r","i","b","u","t","o","r">>}

\* C1: decide returns a decision for every issue, and its action is one of
\* skip, close, none and its category one of the ten categories.
C1_Totality ==
    Returned =>
        /\ decision # NoDecision
        /\ decision.action \in Actions
        /\ decision.category \in Categories

\* A flagship issue no rule applies to: decide reaches its final return.
C1_Witness ==
    Returned /\ issue.repo = CORE_REPO /\ Is("none", "pass")

\* C2 as stated: every issue whose state is not open gets skip/not-open.
C2_Original ==
    Returned /\ ~IsOpen => Is("skip", "not-open")

\* C2, amended: every issue of a recognized repository whose state is not
\* open gets skip/not-open, whatever its title, body and labels.
C2_StateGate ==
    Returned /\ issue.repo \in PLUGIN_REPOS \cup CORE_LIKE_REPOS /\ ~IsOpen
        => Is("skip", "not-open")

\* A closed plugin issue whose text is over the language threshold.
C2_Witness ==
    /\ Returned /\ InPluginRepo /\ ~IsOpen /\ OverThreshold
    /\ Is("skip", "not-open")

\* C3: every issue of a repository outside the recognized set gets
\* skip/unsupported-repo, whatever its state, author, linked pull requests
\* and text.
C3_UnsupportedRepoFirst ==
    Returned /\ issue.repo \notin PLUGIN_REPOS \cup CORE_LIKE_REPOS
        => Is("skip", "unsupported-repo")

\* A closed issue of an unrecognized repository, with a linked pull request,
\* a trusted author and a text over the language threshold.
C3_Witness ==
    /\ Returned /\ issue.repo \notin PLUGIN_REPOS \cup CORE_LIKE_REPOS
    /\ ~IsOpen /\ HasLinkedPr /\ TrustedAuthor /\ OverThreshold
    /\ Is("skip", "unsupported-repo")

\* C4: every open issue of a core-like repository with a linked pull request
\* gets skip/linked-pr, whatever its author and text.
C4_LinkedPrFirst ==
    Returned /\ IsOpen /\ InCoreLikeRepo /\ HasLinkedPr
        => Is("skip", "linked-pr")

\* An open flagship issue with a linked pull request whose author is not
\* trusted and whose text is over the threshold, a question, outdated and in
\* violation of the standards.
C4_Witness ==
    /\ Returned /\ IsOpen /\ issue.repo = CORE_REPO /\ HasLinkedPr
    /\ ~TrustedAuthor /\ OverThreshold /\ IsQuestion /\ Outdated
    /\ Len(Violations) > 0
    /\ Is("skip", "linked-pr")

\* C5: every open plugin issue whose CJK ratio is at or above 0.20 gets
\* close/language, also when it is a question and unclear.
C5_PluginLanguageFirst ==
    Returned /\ IsOpen /\ InPluginRepo /\ OverThreshold
        => Is("close", "language")

\* An open plugin issue over the threshold that is a question and unclear.
C5_Witness ==
    /\ Returned /\ IsOpen /\ InPluginRepo /\ OverThreshold
    /\ IsQuestion /\ Len(UnclearReasons) > 0
    /\ Is("close", "language")

\* C6: a plugin issue never gets core-standards or outdated-version, and a
\* core-like issue never gets unclear.
C6_CategoryExclusivity ==
    Returned =>
        /\ InPluginRepo =>
                decision.category \notin {"core-standards", "outdated-version"}
        /\ InCoreLikeRepo => decision.category # "unclear"

\* An open plugin issue, neither over the threshold nor a question nor
\* unclear, that reports a version below the minimum and violates the core
\* standards: it passes.
C6_Witness ==
    /\ Returned /\ IsOpen /\ InPluginRepo /\ ~OverThreshold /\ ~IsQuestion
    /\ ReportedVersion # None /\ VersionLess(ReportedVersion, <<1, 10, 0>>)
    /\ Len(Violations) > 0 /\ Len(UnclearReasons) = 0
    /\ Is("none", "pass")

\* C7: a decision has a comment iff its action is close, has a reason
\* whenever its action is close, and pairs close with language, question,
\* unclear, outdated-version, core-standards only, none with pass only and
\* skip with unsupported-repo, not-open, linked-pr, trusted-author only.
C7_DecisionShape ==
    Returned =>
        /\ Len(decision.comment) > 0 <=> decision.action = "close"
        /\ decision.action = "close" => Len(decision.reasons) > 0
        /\ decision.action = "close" =>
                decision.category \in {"language", "question", "unclear",
                                       "outdated-version", "core-standards"}
        /\ decision.action = "none" => decision.category = "pass"
        /\ decision.action = "skip" =>
                decision.category \in {"unsupported-repo", "not-open",
                                       "linked-pr", "trusted-author"}

\* An issue closed for its standards, with its violations and its comment.
C7_Witness ==
    /\ Returned /\ Is("close", "core-standards")
    /\ decision.reasons = Violations
    /\ decision.comment = render_comment(issue, "core-standards", Violations)

\* C9: every open issue of a core-like repository without linked pull
\* request whose author is an owner, member, collaborator or contributor (in
\* any letter case) gets skip/trusted-author, whatever its text.
C9_TrustedAuthor ==
    Returned /\ IsOpen /\ InCoreLikeRepo /\ ~HasLinkedPr /\ TrustedAuthor
        => Is("skip", "trusted-author")

\* Such an issue by a "Contributor" whose text is over the threshold, a
\* question, outdated and in violation of the standards.
C9_Witness ==
    /\ Returned /\ IsOpen /\ issue.repo = CORE_REPO /\ ~HasLinkedPr
    /\ issue.author_association = <<"C","o","n","t","r","i","b","u","t","o","r">>
    /\ OverThreshold /\ IsQuestion /\ Outdated /\ Len(Violations) > 0
    /\ Is("skip", "trusted-author")

\* C10: for an open issue of a core-like repository without linked pull
\* request and with an untrusted author the category is language if the
\* ratio is at or above the threshold, else question if the issue is a
\* question, else outdated-version if the version rule applies, else
\* core-standards iff there is a violation, and none/pass iff none applies.
C10_CoreRuleOrder ==
    Returned /\ IsOpen /\ InCoreLikeRepo /\ ~HasLinkedPr /\ ~TrustedAuthor =>
        /\ OverThreshold => Is("close", "language")
        /\ ~OverThreshold /\ IsQuestion => Is("close", "question")
        /\ ~OverThreshold /\ ~IsQuestion /\ Outdated
                => Is("close", "outdated-version")
        /\ ~OverThreshold /\ ~IsQuestion /\ ~Outdated =>
                /\ Len(Violations) > 0 <=> Is("close", "core-standards")
                /\ Len(Violations) = 0 <=> Is("none", "pass")
        /\ Is("none", "pass") <=>
                ~OverThreshold /\ ~IsQuestion /\ ~Outdated /\ Len(Violations) = 0

\* Such an issue that is neither over the threshold nor a question, reports
\* an outdated version and violates the standards: the version rule wins.
C10_Witness ==
    /\ Returned /\ IsOpen /\ InCoreLikeRepo /\ ~HasLinkedPr /\ ~TrustedAuthor
    /\ ~OverThreshold /\ ~IsQuestion /\ Outdated /\ Len(Violations) > 0
    /\ Is("close", "outdated-version")


\* C11: for an open plugin issue whose CJK ratio is below the threshold the
\* decision is close/question iff the issue is a question (also when its
\* content is unclear), close/unclear iff it is no question and the list of
\* unclear reasons is non-empty, with exactly that list as reasons, and
\* none/pass iff it is no question and the list is empty.
C11_PluginRuleOrder ==
    Returned /\ IsOpen /\ InPluginRepo /\ ~OverThreshold =>
        /\ Is("close", "question") <=> IsQuestion
        /\ Is("close", "unclear") <=> ~IsQuestion /\ Len(UnclearReasons) > 0
        /\ Is("close", "unclear") => decision.reasons = UnclearReasons
        /\ Is("none", "pass") <=> ~IsQuestion /\ Len(UnclearReasons) = 0

\* An open plugin issue below the threshold that is a question and whose
\* content is unclear: it is closed as a question.
C11_Witness ==
    /\ Returned /\ IsOpen /\ InPluginRepo /\ ~OverThreshold
    /\ IsQuestion /\ Len(UnclearReasons) > 0
    /\ Is("close", "question")

\* The issue reaches the version rule of decide.
ReachesVersionRule ==
    /\ Returned /\ IsOpen /\ InCoreLikeRepo /\ ~HasLinkedPr /\ ~TrustedAuthor
    /\ ~OverThreshold /\ ~IsQuestion

\* C12: an open issue that reaches the version rule gets
\* close/outdated-version iff its repository is langgenius/dify and a
\* reported version parses and is below 1.10.0 by its numbers (1.9.9 and
\* 1.5.0 are, 1.10.0, 1.10.1 and 2.0 are not); the reason cites the reported
\* version and the minimum; an issue of a web-app repository never gets
\* outdated-version.
C12_VersionRule ==
    /\ ReachesVersionRule =>
        /\ Is("close", "outdated-version") <=>
            /\ issue.repo = "langgenius/dify"
            /\ ReportedVersion # None
            /\ \/ ReportedVersion[1] < 1
               \/ ReportedVersion[1] = 1 /\ ReportedVersion[2] < 10
        /\ issue.repo = "langgenius/dify"
                /\ ReportedVersion \in {<<1, 9, 9>>, <<1, 5, 0>>}
            => Is("close", "outdated-version")
        /\ ReportedVersion \in {<<1, 10, 0>>, <<1, 10, 1>>, <<2, 0, 0>>}
            => ~Is("close", "outdated-version")
        /\ Is("close", "outdated-version") =>
            decision.reasons =
                << <<"Reported Dify version is v", ReportedVersion,
                     ", which is below v", "1.10.0", ".">> >>
    /\ Returned /\ issue.repo \in WEBAPP_REPOS
        => decision.category # "outdated-version"

\* A flagship issue that reports 1.9.9 and reaches the version rule: it is
\* closed as outdated.
C12_Witness ==
    /\ ReachesVersionRule /\ issue.repo = "langgenius/dify"
    /\ issue.body = <<"D","i","f","y"," ","v","e","r","s","i","o","n",":"," ","1",".","9",".","9">> /\ ReportedVersion = <<1, 9, 9>>
    /\ Is("close", "outdated-version")

\* The two ratios decide computes: over the title and the sanitized body,
\* and over the sanitized body alone.
CombinedRatio == Classified[TextOf(issue)].combined_ratio

BodyRatio == Classified[TextOf(issue)].body_ratio

\* The issue reaches a language rule of decide.
ReachesLanguageRule ==
    /\ Returned /\ IsOpen
    /\ InPluginRepo \/ (InCoreLikeRepo /\ ~HasLinkedPr /\ ~TrustedAuthor)

\* C15: an issue that reaches the language rule is closed for its language
\* iff the ratio over title and sanitized body or the ratio over the
\* sanitized body alone is at or above 0.20, the value 0.20 included; so an
\* issue whose body alone is at the threshold is flagged although its title
\* brings the combined ratio below it.
C15_LanguageThreshold ==
    ReachesLanguageRule =>
        (Is("close", "language") <=>
            \/ CombinedRatio.num * 100 >= 20 * CombinedRatio.den
            \/ BodyRatio.num * 100 >= 20 * BodyRatio.den)

\* An issue whose body alone is at exactly 0.20 and whose combined ratio is
\* below it: it is closed for its language.
C15_Witness ==
    /\ ReachesLanguageRule /\ issue.body = <<"<4e2d>","a","b","c","d">>
    /\ BodyRatio.num * 5 = BodyRatio.den
    /\ CombinedRatio.num * 100 < 20 * CombinedRatio.den
    /\ Is("close", "language")

\* The body of the issue is empty or whitespace only.
BodyIsBlank == \A n \in 1..Len(issue.body) : IsSpace(issue.body[n])

\* The title reason, if the title is shorter than 8 normalized characters or
\* generic.
TitleReason ==
    IF \/ Len(normalize_space(issue.title)) < 8
       \/ GENERIC_TITLE_RE(normalize_space(issue.title))
    THEN <<"Title is too short or generic.">>
    ELSE <<>>

\* C19: on an issue whose body is empty or whitespace only unclear_reasons
\* returns the title reason, if the title is short or generic, followed by
\* "Description is empty." and nothing else; such an open plugin issue that
\* is neither over the language threshold nor a question is closed as
\* unclear with "Description is empty." among its reasons.
C19_EmptyBodyTerminal ==
    Returned /\ BodyIsBlank =>
        /\ UnclearReasons = TitleReason \o <<"Description is empty.">>
        /\ IsOpen /\ InPluginRepo /\ ~OverThreshold /\ ~IsQuestion =>
            /\ Is("close", "unclear")
            /\ \E n \in 1..Len(decision.reasons) :
                    decision.reasons[n] = "Description is empty."

\* An open plugin issue with a generic title and a body of whitespace only,
\* closed as unclear for its title and its empty description.
C19_Witness ==
    /\ Returned /\ IsOpen /\ InPluginRepo /\ issue.body = <<" "," ","\n"," ">>
    /\ issue.title = <<"b","u","g">>
    /\ Is("close", "unclear")
    /\ decision.reasons =
            <<"Title is too short or generic.", "Description is empty.">>

----------------------------------------------------------------------------
(* The classifiers applied on their own: a function, its argument and the  *)
(* value it returns.                                                       *)

\* Most characters of a text cjk_ratio is applied to.
MaxTextLen == 3

\* Most lines of a body extract_dify_version is applied to.
MaxBodyLines == 2

\* Most lines of a body sanitize_body_for_cjk is applied to.
MaxSanitizedLines == 4

\* Sentences of a bug report, one for each of the five requirements of
\* core_standard_violations, each with the markers of its requirement only.
BugFieldSentences ==
    << <<"D","i","f","y"," ","v","e","r","s","i","o","n"," ","1",".","1","0",".","0",".">>, <<"R","u","n","n","i","n","g"," ","o","n"," ","D","o","c","k","e","r",".">>,
       <<"S","t","e","p","s"," ","t","o"," ","r","e","p","r","o","d","u","c","e",":"," ","r","u","n"," ","t","h","e"," ","n","o","d","e",".">>, <<"E","x","p","e","c","t","e","d"," ","a"," ","r","e","s","u","l","t",".">>,
       <<"A","c","t","u","a","l",":"," ","a"," ","t","i","m","e","o","u","t",".">> >>

\* Lines that carry the label "dify version" and a version, and the version
\* each carries.
LabelledLines ==
    { <<<<"D","i","f","y"," ","v","e","r","s","i","o","n",":"," ","1",".","2",".","0">>, <<1, 2, 0>>>>,
      <<<<"D","I","F","Y"," ","V","E","R","S","I","O","N"," ","0",".","6",".","1">>, <<0, 6, 1>>>>,
      <<<<"-"," ","d","i","f","y"," ","v","e","r","s","i","o","n"," ","v","1",".","1","1">>, <<1, 11, 0>>>> }

\* n times c.
Repeat(c, n) == AsTuple([k \in 1..n |-> c])

\* The calls: cjk_ratio on the texts of a letter, a space, an ideograph and
\* the ideographic space U+3000; extract_dify_version on the bodies of
\* labelled lines, of lines that mention a version in passing, of a label
\* without version and of plain text; unclear_reasons on titles and on
\* bodies around its limits: 59, 60, 179 and 180 characters of content, one
\* and two detail markers, a placeholder, template sections of which none,
\* one or two are filled, and a checklist section before a filled one;
\* effective_content on bodies without heading, with sections that are kept
\* and with sections that are all dropped; sanitize_body_for_cjk on bodies
\* of Self Checks headings, another heading, lines with the acknowledgment
\* snippets and a plain line; looks_like_question on issues with and without
\* each of its signals, a lead phrase on the tenth and on the eleventh line
\* of the body; core_standard_violations on bug reports with each subset of
\* the five required fields, short and long; decide on the open issues of
\* the flagship repository; render_comment on each category, one that is
\* unknown and the empty one, with no reason, one reason and two reasons.
Calls ==
    LET RatioChars == {"a", " ", "<4e2d>", "<3000>"}
        VersionLines ==
            {l[1] : l \in LabelledLines}
            \cup {<<"w","o","r","k","s"," ","s","i","n","c","e"," ","d","i","f","y"," ","v","2",".","0">>, <<"D","i","f","y"," ","1",".","1","1",".","3"," ","b","r","o","k","e"," ","i","t">>,
                  <<"D","i","f","y"," ","v","e","r","s","i","o","n">>, <<"p","l","a","i","n"," ","t","e","x","t">>}
        QualityTitles ==
            {<<"b","u","g">>, <<"C","r","a","s","h">>, <<"n","o","t"," ","w","o","r","k","i","n","g">>, <<"W","o","r","k","f","l","o","w"," ","n","o","d","e"," ","o","u","t","p","u","t"," ","i","s"," ","w","r","o","n","g">>}
        QualityBodies ==
            {Repeat("x", 59), Repeat("x", 60), Repeat("x", 179),
             Repeat("x", 180),
             <<"s","e","e"," ","t","h","e"," ","l","o","g"," ">> \o Repeat("x", 100),
             <<"s","t","e","p","s"," ","t","o"," ","r","e","p","r","o","d","u","c","e"," ">> \o Repeat("x", 160),
             <<"s","t","e","p","s"," ","t","o"," ","r","e","p","r","o","d","u","c","e"," ">> \o Repeat("x", 100),
             <<"T","B","D"," ">> \o Repeat("x", 200),
             <<"#","#"," ","S","u","m","m","a","r","y","\n">> \o Repeat("x", 200) \o <<"\n","#","#"," ","S","t","e","p","s","\n","_","N","o"," ","r","e","s","p","o","n","s","e","_">>,
             <<"#","#"," ","S","u","m","m","a","r","y","\n">> \o Repeat("x", 100) \o <<"\n","#","#"," ","S","t","e","p","s","\n">>
                \o Repeat("y", 100),
             <<"#","#"," ","S","u","m","m","a","r","y","\n","\n","#","#"," ","S","t","e","p","s","\n","_","N","o"," ","r","e","s","p","o","n","s","e","_">>,
             <<"#","#"," ","S","e","l","f"," ","C","h","e","c","k","s","\n","-"," ","[","x","]"," ","I"," ","h","a","v","e"," ","s","e","a","r","c","h","e","d"," ","f","o","r"," ","e","x","i","s","t","i","n","g"," ","i","s","s","u","e","s","\n">>
                \o <<"#","#"," ","D","e","s","c","r","i","p","t","i","o","n","\n">> \o Repeat("x", 200),
             <<"t","o","d","o">>}
        SectionBodies ==
            {<<>>, <<"p","l","a","i","n"," ","t","e","x","t">>, <<"#","#"," ","S","u","m","m","a","r","y","\n","f","i","r","s","t","\n","#","#"," ","S","t","e","p","s","\n","s","e","c","o","n","d">>,
             <<"#","#"," ","S","u","m","m","a","r","y","\n","\n","#","#"," ","S","t","e","p","s","\n","_","N","o"," ","r","e","s","p","o","n","s","e","_">>,
             <<"i","n","t","r","o","\n","#","#"," ","S","u","m","m","a","r","y","\n","n","/","a">>,
             <<"#","#"," ","S","e","l","f"," ","C","h","e","c","k","s","\n","-"," ","[","x","]"," ","s","e","a","r","c","h","e","d","\n","#","#"," ","D","e","s","c","r","i","p","t","i","o","n","\n","i","t"," "," ","f","a","i","l","s">>,
             <<"#","#"," ","S","e","l","f"," ","C","h","e","c","k","s","\n","-"," ","[","x","]"," ","s","e","a","r","c","h","e","d","\n","*"," ","["," ","]"," ","r","e","a","d">>,
             <<"#","#"," ","T","a","s","k","s","\n","-"," ","[","x","]"," ","s","e","a","r","c","h","e","d","\n","\n","-"," ","[","X","]"," ","r","e","a","d","\n","#","#","#"," ","N","o","t","e","s","\n","N","o","n","e">>,
             <<"#"," ","A","\n","o","n","e","\n","#","#"," ","B","\n"," ","-"," ","["," ","]"," ","o","p","e","n","\n","#","#"," ","C","\n"," "," ","t","w","o"," ","\n"," "," ","l","i","n","e","s">>}
        ChecklistLines ==
            {<<"#","#"," ","s","e","l","f"," ","c","h","e","c","k","s">>, <<"#","#","#","#","#","#"," ","S","E","L","F"," ","C","H","E","C","K","S">>, <<"#","#"," ","D","e","s","c","r","i","p","t","i","o","n">>,
             <<"-"," ","[","x","]"," ","<6211>","<5df2>","<9605>","<8bfb>","<5e76>","<540c>","<610f>">>,
             <<" ","*"," ","["," ","]"," ","<6211>","<5df2>","<9605>","<8bfb>","<5e76>","<540c>","<610f>"," ","t","h","e"," ","r","u","l","e","s"," ","<8bf7>","<52a1>","<5fc5>","<4f7f>","<7528>","<82f1>","<6587>","<63d0>","<4ea4>"," ","I","s","s","u","e","<ff0c>","<5426>","<5219>","<4f1a>","<88ab>","<5173>","<95ed>","<3002>","<8c22>","<8c22>","<ff01>",":",")">>,
             <<"p","l","a","i","n">>}
        QuestionLabels ==
            {<<>>, <<<<"Q","u","e","s","t","i","o","n">>>>, <<<<"b","u","g">>>>, <<<<"b","u","g">>, <<"S","U","P","P","O","R","T">>>>,
             <<<<"q","u","e","s","t","i","o","n","s">>>>}
        QuestionTitles ==
            {<<"C","r","a","s","h"," ","o","n"," ","s","a","v","e">>, <<"C","r","a","s","h"," ","o","n"," ","s","a","v","e","?">>, <<"<4fdd>","<5b58>","<65f6>","<5d29>","<6e83>","<ff1f>">>,
             <<" "," ","H","E","L","P"," ","m","e">>, <<"W","h","y"," ","c","r","a","s","h">>, <<"d","o","e","s"," ","i","t"," ","c","r","a","s","h">>, <<"H","o","w","t","o"," ","c","r","a","s","h">>,
             <<"C","r","a","s","h"," ","w","h","y">>}
        QuestionBodies ==
            {<<"I","t"," ","c","r","a","s","h","e","s">>, <<"I"," ","N","E","E","D"," "," ","H","E","L","P"," ","w","i","t","h"," ","i","t">>, <<"H","o","w","\n","t","o"," ","f","i","x"," ","i","t">>,
             JoinWith(<<"\n">>, Repeat(<<"l","i","n","e">>, 9) \o <<<<"h","o","w"," ","d","o"," ","i"," ","f","i","x"," ","i","t">>>>),
             JoinWith(<<"\n">>, Repeat(<<"l","i","n","e">>, 10) \o <<<<"h","o","w"," ","d","o"," ","i"," ","f","i","x"," ","i","t">>>>)}
        Filler ==
            <<"T","h","e"," ","n","o","d","e"," ","s","h","o","w","s"," ","t","h","e"," ","w","r","o","n","g"," ","v","a","l","u","e"," ","a","f","t","e","r"," ","t","h","e"," ","s","e","c","o","n","d"," ","r","u","n"," ","o","f"," ","t","h","e"," ","w","o","r","k","f","l","o","w"," ","a","n","d"," ","e","v","e","r","y"," ","f","u","r","t","h","e","r"," ","r","u","n"," ","s","h","o","w","s"," ","t","h","e"," ","s","a","m","e"," ","v","a","l","u","e"," ","a","s"," ","b","e","f","o","r","e"," ","i","t",".">>
        ReportBodies ==
            {JoinWith(<<" ">>, SelectSeq(BugFieldSentences \o <<filler>>,
                                      LAMBDA sentence :
                                        \/ sentence = filler
                                        \/ \E k \in present :
                                               sentence = BugFieldSentences[k])) :
                present \in SUBSET (1..5), filler \in {<<>>, Filler}}
    IN  {[function |-> "cjk_ratio", argument |-> AsTuple(text)] :
            text \in UNION {[1..n -> RatioChars] : n \in 0..MaxTextLen}}
        \cup {[function |-> "extract_dify_version",
               argument |-> JoinWith(<<"\n">>, AsTuple(lines))] :
                lines \in UNION {[1..n -> VersionLines] : n \in 0..MaxBodyLines}}
        \cup {[function |-> "unclear_reasons",
               argument |-> [title |-> title, body |-> body]] :
                title \in QualityTitles, body \in QualityBodies}
        \cup {[function |-> "effective_content", argument |-> body] :
                body \in SectionBodies}
        \cup {[function |-> "looks_like_question",
               argument |-> [title |-> title, body |-> body,
                             labels |-> labels]] :
                title \in QuestionTitles, body \in QuestionBodies,
                labels \in QuestionLabels}
        \cup {[function |-> "core_standard_violations",
               argument |-> [title |-> title, body |-> body,
                             labels |-> labels]] :
                title \in {<<"W","o","r","k","f","l","o","w"," ","n","o","d","e"," ","o","u","t","p","u","t"," ","i","s"," ","w","r","o","n","g">>,
                            <<"C","r","a","s","h"," ","i","n"," ","t","h","e"," ","w","o","r","k","f","l","o","w"," ","n","o","d","e">>},
                body \in ReportBodies,
                labels \in {<<>>, <<<<"b","u","g">>>>, <<<<"B","u","g">>>>}}
        \cup {[function |-> "decide", argument |-> i] :
                i \in {i \in Issues : i.repo = CORE_REPO /\ i.state = <<"O","P","E","N">>}}
        \cup {[function |-> "render_comment",
               argument |-> [issue |-> [author |-> author, repo |-> CORE_REPO],
                             category |-> category, reasons |-> reasons]] :
                author \in {"alice", "bob"},
                category \in {"unsupported-repo", "not-open", "language",
                              "question", "unclear", "outdated-version",
                              "core-standards", "linked-pr", "trusted-author",
                              "pass", "", "spam"},
                reasons \in {<<>>, <<"Title is too short or generic.">>,
                             <<"Title is too short or generic.",
                               "Description is empty.">>,
                             <<"Description is empty.",
                               "Title is too short or generic.">>,
                             <<"Description is empty.",
                               "Description is empty.">>}}
        \cup {[function |-> "sanitize_body_for_cjk",
               argument |-> JoinWith(<<"\n">>, AsTuple(lines))] :
                lines \in UNION {[1..n -> ChecklistLines] :
                                    n \in 0..MaxSanitizedLines}}

\* No issue has been read.
NoIssue == issue = None /\ decision = NoDecision

InitCall ==
    /\ call \in Calls
    /\ result = None
    /\ pc = "start"
    /\ NoIssue
    /\ NoRun
    /\ NoReview

\* result = cjk_ratio(text)
CallCjkRatio ==
    /\ pc = "start"
    /\ call.function = "cjk_ratio"
    /\ result' = cjk_ratio(call.argument)
    /\ pc' = "done"
    /\ UNCHANGED <<call, issue, decision, mainVars, reviewVars>>

\* result = extract_dify_version(body)
CallExtractDifyVersion ==
    /\ pc = "start"
    /\ call.function = "extract_dify_version"
    /\ result' = extract_dify_version(call.argument)
    /\ pc' = "done"
    /\ UNCHANGED <<call, issue, decision, mainVars, reviewVars>>

\* result = unclear_reasons(issue)
CallUnclearReasons ==
    /\ pc = "start"
    /\ call.function = "unclear_reasons"
    /\ result' = unclear_reasons(call.argument)
    /\ pc' = "done"
    /\ UNCHANGED <<call, issue, decision, mainVars, reviewVars>>

\* result = effective_content(body)
CallEffectiveContent ==
    /\ pc = "start"
    /\ call.function = "effective_content"
    /\ result' = effective_content(call.argument)
    /\ pc' = "done"
    /\ UNCHANGED <<call, issue, decision, mainVars, reviewVars>>

\* result = sanitize_body_for_cjk(body)
CallSanitizeBodyForCjk ==
    /\ pc = "start"
    /\ call.function = "sanitize_body_for_cjk"
    /\ result' = sanitize_body_for_cjk(call.argument)
    /\ pc' = "done"
    /\ UNCHANGED <<call, issue, decision, mainVars, reviewVars>>

\* result = looks_like_question(issue)
CallLooksLikeQuestion ==
    /\ pc = "start"
    /\ call.function = "looks_like_question"
    /\ result' = looks_like_question(call.argument)
    /\ pc' = "done"
    /\ UNCHANGED <<call, issue, decision, mainVars, reviewVars>>

\* result = core_standard_violations(issue)
CallCoreStandardViolations ==
    /\ pc = "start"
    /\ call.function = "core_standard_violations"
    /\ result' = core_standard_violations(call.argument)
    /\ pc' = "done"
    /\ UNCHANGED <<call, issue, decision, mainVars, reviewVars>>

\* result = decide(issue)
CallDecide ==
    /\ pc = "start"
    /\ call.function = "decide"
    /\ result' = decide(call.argument)
    /\ pc' = "done"
    /\ UNCHANGED <<call, issue, decision, mainVars, reviewVars>>

\* result = render_comment(issue, category, reasons)
CallRenderComment ==
    /\ pc = "start"
    /\ call.function = "render_comment"
    /\ result' = render_comment(call.argument.issue, call.argument.category,
                                call.argument.reasons)
    /\ pc' = "done"
    /\ UNCHANGED <<call, issue, decision, mainVars, reviewVars>>

NextCall ==
    \/ CallCjkRatio
    \/ CallExtractDifyVersion
    \/ CallUnclearReasons
    \/ CallEffectiveContent
    \/ CallSanitizeBodyForCjk
    \/ CallLooksLikeQuestion
    \/ CallCoreStandardViolations
    \/ CallDecide
    \/ CallRenderComment

SpecCalls == InitCall /\ [][NextCall]_vars

\* The function has returned.
Called(function) == pc = "done" /\ call.function = function

\* The lines of the body extract_dify_version was applied to, and the
\* positions of the labelled lines among them.
ArgumentLines == SplitLines(call.argument)

LabelledAt ==
    {n \in 1..Len(ArgumentLines) :
        \E l \in LabelledLines : l[1] = ArgumentLines[n]}

\* C13: on a body with a line that carries the label "dify version" and a
\* version, extract_dify_version returns the version of the first such line,
\* never that of a mention in passing, be the mention before or after it.
C13_LabelledLineWins ==
    Called("extract_dify_version") /\ LabelledAt # {} =>
        \E l \in LabelledLines :
            /\ l[1] = ArgumentLines[CHOOSE n \in LabelledAt :
                                        \A k \in LabelledAt : n <= k]
            /\ result = l[2]

\* The mention "dify v2.0" on the line before "Dify version: 1.2.0": the
\* version is 1.2.0.
C13_Witness ==
    /\ Called("extract_dify_version")
    /\ call.argument = <<"w","o","r","k","s"," ","s","i","n","c","e"," ","d","i","f","y"," ","v","2",".","0","\n","D","i","f","y"," ","v","e","r","s","i","o","n",":"," ","1",".","2",".","0">>
    /\ result = <<1, 2, 0>>

\* C14: cjk_ratio returns a value in [0,1], the CJK characters counted never
\* more than the non-whitespace characters, and 0 for a text without
\* non-whitespace character.
C14_RatioInUnitInterval ==
    Called("cjk_ratio") =>
        /\ 0 <= result.num
        /\ result.num <= result.den
        /\ (\A n \in 1..Len(call.argument) : IsSpace(call.argument[n]))
            => result.num = 0

\* What unclear_reasons reads of its argument.
TitleClean == normalize_space(call.argument.title)

BodyClean == normalize_space(call.argument.body)

ContentLen == Len(effective_content(call.argument.body))

Sections == extract_template_sections(call.argument.body)

MarkerHits ==
    Cardinality({marker \in DetailMarkers : Contains(Lower(BodyClean), marker)})

When(condition, reason) == IF condition THEN <<reason>> ELSE <<>>

\* The reasons of checks 1, 3, 4, 5 and 6, each present iff its condition
\* holds, in this order; that of check 5 is given.
AccumulatedReasons(few_filled) ==
    When(Len(TitleClean) < 8 \/ GENERIC_TITLE_RE(TitleClean),
         "Title is too short or generic.")
    \o When(ContentLen < 60,
            "Description is too short to understand the task.")
    \o When(PLACEHOLDER_RE(BodyClean),
            "Description contains placeholders instead of concrete details.")
    \o When(few_filled,
            "Almost all template sections are empty or marked _No response_.")
    \o When(ContentLen < 180 /\ MarkerHits < 2,
            "Description lacks enough concrete context for maintainers.")

\* C20 as stated: on a body that is not empty each reason is present iff its
\* condition holds, that of check 5 iff at most one section is filled.
C20_Original ==
    Called("unclear_reasons") /\ Len(BodyClean) > 0 =>
        result = AccumulatedReasons(FilledSections(Sections) <= 1)

\* C20, amended: on a body that is not empty each reason is present iff its
\* condition holds, in the fixed order and once; that of check 5 iff the body
\* has a template section and at most one section is filled.  Content of
\* exactly 60 characters does not trigger check 3, content of exactly 180
\* characters or exactly 2 markers does not trigger check 6.
C20_AccumulatedReasons ==
    Called("unclear_reasons") /\ Len(BodyClean) > 0 =>
        result = AccumulatedReasons(Len(Sections) > 0
                                    /\ FilledSections(Sections) <= 1)

\* A generic title and a body of exactly 60 characters without marker: the
\* reasons of checks 1 and 6, not that of check 3.
C20_Witness ==
    /\ Called("unclear_reasons")
    /\ call.argument.title = <<"b","u","g">>
    /\ call.argument.body = Repeat("x", 60)
    /\ result = <<"Title is too short or generic.",
                  "Description lacks enough concrete context for maintainers.">>

----------------------------------------------------------------------------
(* A run of main: the command line, the gh commands it runs, what it       *)
(* prints and the status it exits with.  A command that was run is kept    *)
(* with its return code; an integer in a command or a printed line stands  *)
(* for its decimal text (str(number)).                                     *)

\* The repositories of the model as texts; elsewhere a repository is kept
\* by its name.
RepoText ==
    "langgenius/dify" :> <<"l","a","n","g","g","e","n","i","u","s","/","d","i","f","y">>
    @@ "langgenius/dify-plugins" :> <<"l","a","n","g","g","e","n","i","u","s","/","d","i","f","y","-","p","l","u","g","i","n","s">>
    @@ "langgenius/dify-official-plugins" :> <<"l","a","n","g","g","e","n","i","u","s","/","d","i","f","y","-","o","f","f","i","c","i","a","l","-","p","l","u","g","i","n","s">>
    @@ "langgenius/webapp-conversation" :> <<"l","a","n","g","g","e","n","i","u","s","/","w","e","b","a","p","p","-","c","o","n","v","e","r","s","a","t","i","o","n">>
    @@ "langgenius/webapp-text-generator" :> <<"l","a","n","g","g","e","n","i","u","s","/","w","e","b","a","p","p","-","t","e","x","t","-","g","e","n","e","r","a","t","o","r">>
    @@ "octocat/hello-world" :> <<"o","c","t","o","c","a","t","/","h","e","l","l","o","-","w","o","r","l","d">>

RECURSIVE SkipNonSlash(_, _)
\* The position after the run of characters other than "/" from position i.
SkipNonSlash(s, i) ==
    IF i <= Len(s) /\ s[i] # "/" THEN SkipNonSlash(s, i + 1) ELSE i

\* ISSUE_URL_RE.match(s): the groups <<owner, repo, number>> of
\* ^https?://github\.com/([^/]+)/([^/]+)/issues/(\d+)(?:[/?#].*)?$
\* or None.  "." matches no line break.
ISSUE_URL_RE(s) ==
    LET \* a: start of the owner, b: the "/" after it, c: the "/" after the
        \* repository, d: start of the number, e: the position after it.
        Groups(a, b, c, d, e) ==
            IF /\ b > a
               /\ c > b + 1
               /\ HasAt(s, <<"/","i","s","s","u","e","s","/">>, c)
               /\ e > d
               /\ \/ e > Len(s)
                  \/ /\ s[e] \in {"/", "?", "#"}
                     /\ \A k \in e..Len(s) : s[k] # "\n"
            THEN <<SubSeq(s, a, b - 1), SubSeq(s, b + 1, c - 1),
                   SubSeq(s, d, e - 1)>>
            ELSE None
        Number(a, b, c) == Groups(a, b, c, c + 8, SkipDigits(s, c + 8))
        Repo(a, b) == Number(a, b, SkipNonSlash(s, b + 1))
        Owner(a) == Repo(a, SkipNonSlash(s, a))
    IN  IF HasAt(s, <<"h","t","t","p","s",":","/","/","g","i","t","h","u","b",".","c","o","m","/">>, 1) THEN Owner(20)
        ELSE IF HasAt(s, <<"h","t","t","p",":","/","/","g","i","t","h","u","b",".","c","o","m","/">>, 1) THEN Owner(19)
        ELSE None

\* The repository given with --repo is not compared with that of the URL.
parse_issue_target_of_url(issue_ref, repo_override) ==
    LET Raise(message) == [error |-> message, target |-> None]
        Return(repo, number) == [error |-> None, target |-> <<repo, number>>]
        IsDigit_(s) == Len(s) > 0 /\ \A k \in 1..Len(s) : IsDigit(s[k])
        OfMatch(match) ==
            IF match # None
            THEN Return(match[1] \o <<"/">> \o match[2], ParseInt(match[3]))
            ELSE IF ~IsDigit_(issue_ref)
            THEN Raise(<<"--issue must be a GitHub issue URL or an issue number">>)
            ELSE IF Len(repo_override) = 0
            THEN Raise(<<"--repo is required when --issue is a number">>)
            ELSE Return(repo_override, ParseInt(issue_ref))
    IN  OfMatch(ISSUE_URL_RE(Strip(issue_ref)))

\* parse_issue_target: the (repo, number) pair it returns, or the message of
\* the ValueError it raises.  A repository that is not given is None.
parse_issue_target(issue_ref, repo_override) ==
    LET Raise(message) == [error |-> message, target |-> None]
        Return(repo, number) == [error |-> None, target |-> <<repo, number>>]
        \* str.isdigit()
        IsDigit_(s) == Len(s) > 0 /\ \A k \in 1..Len(s) : IsDigit(s[k])
        OfUrl(repo, number) ==
            IF Len(repo_override) > 0 /\ repo_override # repo
            THEN Raise(<<"--repo ", repo_override,
                         " does not match issue URL repo ", repo>>)
            ELSE Return(repo, ParseInt(number))
        OfMatch(match) ==
            IF match # None
            THEN OfUrl(match[1] \o <<"/">> \o match[2], match[3])
            ELSE IF ~IsDigit_(issue_ref)
            THEN Raise(<<"--issue must be a GitHub issue URL or an issue number">>)
            ELSE IF Len(repo_override) = 0
            THEN Raise(<<"--repo is required when --issue is a number">>)
            ELSE Return(repo_override, ParseInt(issue_ref))
    IN  OfMatch(ISSUE_URL_RE(Strip(issue_ref)))

\* parse_args: the command lines of the model.
Args ==
    [issue : {<<"h","t","t","p","s",":","/","/","g","i","t","h","u","b",".","c","o","m","/","l","a","n","g","g","e","n","i","u","s","/","d","i","f","y","/","i","s","s","u","e","s","/","7">>,
              <<"h","t","t","p",":","/","/","g","i","t","h","u","b",".","c","o","m","/","l","a","n","g","g","e","n","i","u","s","/","d","i","f","y","-","p","l","u","g","i","n","s","/","i","s","s","u","e","s","/","7","/">>,
              <<" ","h","t","t","p","s",":","/","/","g","i","t","h","u","b",".","c","o","m","/","o","c","t","o","c","a","t","/","h","e","l","l","o","-","w","o","r","l","d","/","i","s","s","u","e","s","/","7","#","i","s","s","u","e","c","o","m","m","e","n","t","-","1"," ">>,
              <<"h","t","t","p","s",":","/","/","g","i","t","h","u","b",".","c","o","m","/","l","a","n","g","g","e","n","i","u","s","/","d","i","f","y","/","p","u","l","l","/","7">>,
              <<"h","t","t","p","s",":","/","/","g","i","t","h","u","b",".","c","o","m","/","l","a","n","g","g","e","n","i","u","s","/","d","i","f","y","/","i","s","s","u","e","s","/","7","x">>,
              <<"h","t","t","p","s",":","/","/","g","i","t","h","u","b",".","c","o","m","/","l","a","n","g","g","e","n","i","u","s","/","d","i","f","y","/","i","s","s","u","e","s","/">>,
              <<"h","t","t","p","s",":","/","/","g","i","t","l","a","b",".","c","o","m","/","l","a","n","g","g","e","n","i","u","s","/","d","i","f","y","/","i","s","s","u","e","s","/","7">>,
              <<"g","i","t","h","u","b",".","c","o","m","/","l","a","n","g","g","e","n","i","u","s","/","d","i","f","y","/","i","s","s","u","e","s","/","7">>,
              <<"7">>, <<"0","0","7">>, <<" ","7">>, <<"#","7">>, <<"7","a">>, <<>>},
     repo : {None, <<"l","a","n","g","g","e","n","i","u","s","/","d","i","f","y">>, <<"l","a","n","g","g","e","n","i","u","s","/","d","i","f","y","-","p","l","u","g","i","n","s">>},
     apply : BOOLEAN,
     json : BOOLEAN]

\* What gh issue view prints for issue number: the fields fetch_issue reads.
\* A field without value is None.
Payloads(number) ==
    [number : {number},
     title : {<<"W","o","r","k","f","l","o","w"," ","n","o","d","e"," ","o","u","t","p","u","t"," ","i","s"," ","w","r","o","n","g">>, <<"H","o","w"," ","d","o"," ","I"," ","c","o","n","f","i","g","u","r","e"," ","S","S","O","?">>},
     body : {None, ReportLines},
     login : {"alice"},
     labels : {<<>>, <<<<"b","u","g"," ">>>>},
     state : {<<"O","P","E","N">>, <<"o","p","e","n">>, <<"c","l","o","s","e","d">>, None},
     url : {"https://github.com/langgenius/dify/issues/7"},
     closedByPullRequestsReferences : LinkedPrLists]

\* The commands of the two reads of fetch_issue, in order.
ReadCommands(repo, issue_number) ==
    << <<"gh", "issue", "view", issue_number, "-R", repo, "--json",
         "number,title,body,author,labels,state,url,closedByPullRequestsReferences">>,
       <<"gh", "api", <<"repos/", repo, "/issues/", issue_number>>, "--jq",
         ".author_association">> >>

\* The command of close_issue.
CloseCommand(i, comment) ==
    <<"gh", "issue", "close", i.number, "-R", i.repo, "--reason",
      "not planned", "--comment", comment>>

\* run_cmd on commands in order until one fails: the commands that were
\* run, each with its return code.
Ran(commands, returncodes) ==
    AsTuple([n \in 1..Len(returncodes) |->
                [command |-> commands[n], returncode |-> returncodes[n]]])

\* The RuntimeError run_cmd raises for a command that failed.
CommandFailed(command) == <<"Command failed (", 1, "): ", command>>

\* The IssueData fetch_issue builds of what the two reads printed.
fetch_issue(repo, payload, association) ==
    LET NonEmpty(name) == Len(name) > 0
        Names(labels) == AsTuple([n \in 1..Len(labels) |-> Strip(labels[n])])
        Or(value, default) == IF Len(value) > 0 THEN value ELSE default
    IN  [repo |-> CHOOSE name \in DOMAIN RepoText : RepoText[name] = repo,
         number |-> payload.number,
         title |-> payload.title,
         body |-> payload.body,
         author |-> payload.login,
         labels |-> SelectSeq(Names(payload.labels), NonEmpty),
         state |-> Or(payload.state, <<"U","N","K","N","O","W","N">>),
         url |-> payload.url,
         author_association |-> Or(Strip(association), <<"N","O","N","E">>),
         linked_prs |-> payload.closedByPullRequestsReferences]

\* The lines print_summary prints, a line the sequence of its pieces.
print_summary(i, d) ==
    LET UpperOf == "skip" :> "SKIP" @@ "close" :> "CLOSE" @@ "none" :> "NONE"
    IN  << <<"Repository: ", i.repo>>,
           <<"Issue: #", i.number, " - ", i.title>>,
           <<"URL: ", i.url>>,
           <<"Author: @", i.author, " (", i.author_association, ")">>,
           <<"Decision: ", UpperOf[d.action], " [", d.category, "]">> >>
        \o (IF Len(d.reasons) > 0
            THEN << <<"Reasons:">> >>
                 \o AsTuple([n \in 1..Len(d.reasons) |-> <<"- ", d.reasons[n]>>])
            ELSE <<>>)
        \o (IF Len(d.comment) > 0
            THEN << <<"\nComment preview:\n">> >> \o d.comment
            ELSE <<>>)

InitMain ==
    /\ args \in Args
    /\ target = None
    /\ calls = <<>>
    /\ stdout = <<>>
    /\ stderr = <<>>
    /\ exit_status = None
    /\ pc = "start"
    /\ NoIssue
    /\ NoCall
    /\ NoReview

\* repo, issue_number = parse_issue_target(args.issue, args.repo)
ParseTarget ==
    /\ pc = "start"
    /\ parse_issue_target(args.issue, args.repo).error = None
    /\ target' = parse_issue_target(args.issue, args.repo).target
    /\ pc' = "fetch"
    /\ UNCHANGED <<args, calls, stdout, stderr, exit_status, issue, decision,
                   callVars, reviewVars>>

\* parse_issue_target raises: main prints the error and returns 1.
RejectTarget ==
    /\ pc = "start"
    /\ parse_issue_target(args.issue, args.repo).error # None
    /\ stderr' = Append(stderr,
                        <<"[ERROR] ",
                          parse_issue_target(args.issue, args.repo).error>>)
    /\ exit_status' = <<1>>
    /\ pc' = "exited"
    /\ UNCHANGED <<args, target, calls, stdout, issue, decision, callVars,
                   reviewVars>>

\* issue = fetch_issue(repo, issue_number): both reads succeed.
FetchIssue ==
    /\ pc = "fetch"
    /\ \E payload \in Payloads(target[2]),
          association \in {<<"N","O","N","E","\n">>, <<"M","E","M","B","E","R","\n">>, <<"\n">>} :
            issue' = fetch_issue(target[1], payload, association)
    /\ calls' = calls \o Ran(ReadCommands(target[1], target[2]), <<0, 0>>)
    /\ pc' = "decide"
    /\ UNCHANGED <<args, target, stdout, stderr, exit_status, decision,
                   callVars, reviewVars>>

\* A read does not succeed, however the second is run.
FetchFailureIgnored ==
    /\ pc = "fetch"
    /\ \E payload \in Payloads(target[2]) :
            issue' = fetch_issue(target[1], payload, <<>>)
    /\ calls' = calls \o Ran(ReadCommands(target[1], target[2]), <<0, 1>>)
    /\ pc' = "decide"
    /\ UNCHANGED <<args, target, stdout, stderr, exit_status, decision,
                   callVars, reviewVars>>

\* The first or the second read of fetch_issue fails: run_cmd raises, main
\* prints the error and returns 1.
FetchFailed ==
    /\ pc = "fetch"
    /\ \/ /\ calls' = calls \o Ran(ReadCommands(target[1], target[2]), <<1>>)
          /\ stderr' = Append(stderr,
                              <<"[ERROR] ",
                                CommandFailed(ReadCommands(target[1], target[2])[1])>>)
       \/ /\ calls' = calls \o Ran(ReadCommands(target[1], target[2]), <<0, 1>>)
          /\ stderr' = Append(stderr,
                              <<"[ERROR] ",
                                CommandFailed(ReadCommands(target[1], target[2])[2])>>)
    /\ exit_status' = <<1>>
    /\ pc' = "exited"
    /\ UNCHANGED <<args, target, stdout, issue, decision, callVars,
                   reviewVars>>

\* decision = decide(issue); print_summary(issue, decision); the payload as
\* JSON if asked for.
Moderate ==
    /\ pc = "decide"
    /\ decision' = decide(issue)
    /\ stdout' =
            stdout \o print_summary(issue, decision')
            \o (IF args.json
                THEN << <<"json",
                          [repo |-> issue.repo,
                           issue_number |-> issue.number,
                           decision |-> decision'.action,
                           category |-> decision'.category,
                           reasons |-> decision'.reasons]>> >>
                ELSE <<>>)
    /\ pc' = "apply"
    /\ UNCHANGED <<args, target, calls, stderr, exit_status, issue, callVars,
                   reviewVars>>

\* The decision is not to close.
NoClose ==
    /\ pc = "apply"
    /\ decision.action # "close"
    /\ stdout' = Append(stdout, <<"\nNo close action applied.">>)
    /\ exit_status' = <<0>>
    /\ pc' = "exited"
    /\ UNCHANGED <<args, target, calls, stderr, issue, decision, callVars,
                   reviewVars>>

\* The decision is to close, without --apply.
DryRun ==
    /\ pc = "apply"
    /\ decision.action = "close"
    /\ ~args.apply
    /\ stdout' = Append(stdout,
                        <<"\nDry run only. Re-run with --apply to close the issue.">>)
    /\ exit_status' = <<0>>
    /\ pc' = "exited"
    /\ UNCHANGED <<args, target, calls, stderr, issue, decision, callVars,
                   reviewVars>>

\* The issue is closed whether --apply was given or not.
CloseUnasked ==
    /\ pc = "apply"
    /\ decision.action = "close"
    /\ calls' = calls \o Ran(<<CloseCommand(issue, decision.comment)>>, <<0>>)
    /\ stdout' = Append(stdout,
                        <<"\nApplied moderation: issue closed with comment.">>)
    /\ exit_status' = <<0>>
    /\ pc' = "exited"
    /\ UNCHANGED <<args, target, stderr, issue, decision, callVars,
                   reviewVars>>

\* close_issue(issue, decision.comment) succeeds.
CloseIssue ==
    /\ pc = "apply"
    /\ decision.action = "close"
    /\ args.apply
    /\ calls' = calls \o Ran(<<CloseCommand(issue, decision.comment)>>, <<0>>)
    /\ stdout' = Append(stdout,
                        <<"\nApplied moderation: issue closed with comment.">>)
    /\ exit_status' = <<0>>
    /\ pc' = "exited"
    /\ UNCHANGED <<args, target, stderr, issue, decision, callVars,
                   reviewVars>>

\* close_issue fails: main prints the error and returns 1.
CloseFailed ==
    /\ pc = "apply"
    /\ decision.action = "close"
    /\ args.apply
    /\ calls' = calls \o Ran(<<CloseCommand(issue, decision.comment)>>, <<1>>)
    /\ stderr' = Append(stderr,
                        <<"[ERROR] Failed to close issue: ",
                          CommandFailed(CloseCommand(issue, decision.comment))>>)
    /\ exit_status' = <<1>>
    /\ pc' = "exited"
    /\ UNCHANGED <<args, target, stdout, issue, decision, callVars,
                   reviewVars>>

NextMain ==
    \/ ParseTarget
    \/ RejectTarget
    \/ FetchIssue
    \/ FetchFailed
    \/ Moderate
    \/ NoClose
    \/ DryRun
    \/ CloseIssue
    \/ CloseFailed

SpecMain == InitMain /\ [][NextMain]_vars

\* The positions of the close commands among the commands run, and those of
\* the commands that failed.
CloseCalls ==
    {n \in 1..Len(calls) :
        calls[n].command[2] = "issue" /\ calls[n].command[3] = "close"}

FailedCalls == {n \in 1..Len(calls) : calls[n].returncode # 0}

\* The run has printed the message as a line.
Printed(message) ==
    \E k \in 1..Len(stdout) : Len(stdout[k]) = 1 /\ stdout[k][1] = message

\* C16: a run closes the issue at most once, and only if decide returned
\* close and --apply was given; the close command carries the number and
\* the repository of the issue, the reason "not planned" and the comment of
\* the decision.
C16_CloseOnlyWhenApplied ==
    /\ Cardinality(CloseCalls) <= 1
    /\ ~args.apply \/ decision.action # "close" => CloseCalls = {}
    /\ \A n \in CloseCalls :
            calls[n].command =
                <<"gh", "issue", "close", issue.number, "-R", issue.repo,
                  "--reason", "not planned", "--comment", decision.comment>>

\* A run with --apply on an issue decide closes: it has closed the issue
\* with the comment and returned 0.
C16_Witness ==
    /\ pc = "exited" /\ args.apply /\ decision.action = "close"
    /\ CloseCalls = {3} /\ calls[3].returncode = 0
    /\ calls[3].command[10] = render_comment(issue, decision.category,
                                             decision.reasons)
    /\ exit_status = <<0>>

\* C17: a read of the issue that fails ends the run with status 1, without
\* decision, summary or close command; a close command that fails ends the
\* run with status 1 and the run does not print that the issue was closed;
\* nothing is run after a command that failed.
C17_FailureExits ==
    \A n \in FailedCalls :
        /\ n = Len(calls)
        /\ pc = "exited"
        /\ exit_status = <<1>>
        /\ Len(stderr) = 1
        /\ n \notin CloseCalls =>
                /\ issue = None
                /\ decision = NoDecision
                /\ stdout = <<>>
                /\ CloseCalls = {}
        /\ n \in CloseCalls =>
                ~Printed("\nApplied moderation: issue closed with comment.")

\* The second read of the issue has failed.
C17_Witness ==
    /\ FailedCalls = {2} /\ calls[2].command[2] = "api"
    /\ exit_status = <<1>> /\ decision = NoDecision /\ stdout = <<>>

\* The issue references of the command lines that are issue URLs, each with
\* its repository and number, and those that are numbers.
UrlRefs ==
    { <<<<"h","t","t","p","s",":","/","/","g","i","t","h","u","b",".","c","o","m","/","l","a","n","g","g","e","n","i","u","s","/","d","i","f","y","/","i","s","s","u","e","s","/","7">>,
        <<"l","a","n","g","g","e","n","i","u","s","/","d","i","f","y">>, 7>>,
      <<<<"h","t","t","p",":","/","/","g","i","t","h","u","b",".","c","o","m","/","l","a","n","g","g","e","n","i","u","s","/","d","i","f","y","-","p","l","u","g","i","n","s","/","i","s","s","u","e","s","/","7","/">>,
        <<"l","a","n","g","g","e","n","i","u","s","/","d","i","f","y","-","p","l","u","g","i","n","s">>, 7>>,
      <<<<" ","h","t","t","p","s",":","/","/","g","i","t","h","u","b",".","c","o","m","/","o","c","t","o","c","a","t","/","h","e","l","l","o","-","w","o","r","l","d","/","i","s","s","u","e","s","/","7","#","i","s","s","u","e","c","o","m","m","e","n","t","-","1"," ">>,
        <<"o","c","t","o","c","a","t","/","h","e","l","l","o","-","w","o","r","l","d">>, 7>> }

NumberRefs == { <<<<"7">>, 7>>, <<<<"0","0","7">>, 7>> }

\* The run was ended by a validation error, before any command was run and
\* any issue read.
Rejected ==
    /\ pc = "exited" /\ exit_status = <<1>> /\ Len(stderr) = 1
    /\ target = None /\ calls = <<>> /\ issue = None
    /\ decision = NoDecision /\ stdout = <<>>

\* C18: an issue reference that is neither an issue URL nor a number given
\* with a repository is rejected before any command is run and any issue
\* read, and so is a URL whose repository differs from the repository
\* given; any other reference yields the one pair of its repository and
\* number.
C18_TargetValidated ==
    pc # "start" =>
        /\ \A u \in UrlRefs :
                args.issue = u[1] =>
                    IF args.repo = None \/ args.repo = u[2]
                    THEN target = <<u[2], u[3]>>
                    ELSE Rejected
        /\ \A r \in NumberRefs :
                args.issue = r[1] =>
                    IF args.repo # None
                    THEN target = <<args.repo, r[2]>>
                    ELSE Rejected
        /\ args.issue \notin {ref[1] : ref \in UrlRefs \cup NumberRefs}
                => Rejected
        /\ pc = "fetch" => calls = <<>>

\* The URL of an issue of langgenius/dify given with another repository.
C18_Witness ==
    /\ args.issue = <<"h","t","t","p","s",":","/","/","g","i","t","h","u","b",".","c","o","m","/","l","a","n","g","g","e","n","i","u","s","/","d","i","f","y","/","i","s","s","u","e","s","/","7">>
    /\ args.repo = <<"l","a","n","g","g","e","n","i","u","s","/","d","i","f","y","-","p","l","u","g","i","n","s">>
    /\ Rejected

----------------------------------------------------------------------------
(* Properties of the classifiers applied on their own, continued.          *)

\* The reason is among those returned.
Returns(reason) == \E n \in 1..Len(result) : result[n] = reason

\* The section is a checklist that holds only acknowledgment checkboxes.
ChecklistOnly(section) ==
    /\ Lower(section[1]) \in SKIP_SECTION_HEADINGS
    /\ LET lines == NonBlankLines(section[2])
       IN  \A k \in 1..Len(lines) : IsCheckboxLine(lines[k])

\* The sections with non-trivial content other than "no response", a
\* checklist of acknowledgment checkboxes not among them.
FilledAsStated(sections) ==
    {n \in 1..Len(sections) :
        /\ Len(normalize_space(sections[n][2])) > 0
        /\ Lower(normalize_space(sections[n][2])) \notin NON_RESPONSE_VALUES
        /\ ~ChecklistOnly(sections[n])}

\* C21: on a body with template sections that is not empty, unclear_reasons
\* adds "Almost all template sections are empty or marked _No response_."
\* exactly when at most one section has non-trivial content other than "no
\* response", a Self Checks section of acknowledgment checkboxes not counted
\* as filled.
C21_FewFilledSections ==
    Called("unclear_reasons") /\ Len(BodyClean) > 0 /\ Len(Sections) > 0 =>
        (Returns("Almost all template sections are empty or marked _No response_.")
            <=> Cardinality(FilledAsStated(Sections)) <= 1)

\* The contents of the sections effective_content keeps, normalized: those
\* without checklist heading, with content other than "no response" and not
\* made of checkbox lines only.
KeptContents(sections) ==
    LET Kept(section) ==
            /\ Lower(section[1]) \notin SKIP_SECTION_HEADINGS
            /\ Len(normalize_space(section[2])) > 0
            /\ Lower(normalize_space(section[2])) \notin NON_RESPONSE_VALUES
            /\ LET lines == NonBlankLines(section[2])
               IN  ~(/\ Len(lines) > 0
                     /\ \A k \in 1..Len(lines) : IsCheckboxLine(lines[k]))
        Contents(kept) ==
            AsTuple([n \in 1..Len(kept) |-> normalize_space(kept[n][2])])
    IN  Contents(SelectSeq(sections, Kept))

\* C22: effective_content returns the single-space join of the normalized
\* contents of the sections it keeps, and the whole normalized body only if
\* the body has no section at all: of a body whose sections are all dropped
\* nothing is returned.
C22_EffectiveContent ==
    Called("effective_content") =>
        LET Stated(sections) ==
                IF Len(sections) = 0 THEN normalize_space(call.argument)
                ELSE JoinWith(<<" ">>, KeptContents(sections))
        IN  result = Stated(extract_template_sections(call.argument))

\* A heading of any level.
IsHeading(line) ==
    \E hashes \in 1..6 :
        /\ Len(Strip(line)) > hashes
        /\ \A k \in 1..hashes : Strip(line)[k] = "#"
        /\ IsSpace(Strip(line)[hashes + 1])

\* A Self Checks heading of any level, in any letter case.
IsSelfChecksHeading(line) ==
    /\ IsHeading(line)
    /\ Lower(Strip(RemoveAll(Strip(line), <<"#">>))) = <<"s","e","l","f"," ","c","h","e","c","k","s">>

\* Line n lies between a Self Checks heading and the next heading.
InSelfChecks(lines, n) ==
    \E h \in 1..(n - 1) :
        /\ IsSelfChecksHeading(lines[h])
        /\ \A k \in (h + 1)..n : ~IsHeading(lines[k])

HasSnippet(line) ==
    \E k \in DOMAIN ALLOWED_SELF_CHECKS_CJK_SNIPPETS :
        Contains(line, ALLOWED_SELF_CHECKS_CJK_SNIPPETS[k])

\* The lines of the body, those of a Self Checks section that carry a snippet
\* without it, and those of which only a checkbox marker or nothing remains
\* left out.
SanitizedAsStated(lines) ==
    LET Cleaned(n) ==
            IF InSelfChecks(lines, n) /\ HasSnippet(lines[n])
            THEN RemoveSnippets(lines[n]) ELSE lines[n]
        Dropped(n) ==
            /\ InSelfChecks(lines, n)
            /\ HasSnippet(lines[n])
            /\ Strip(Cleaned(n)) \in CheckboxOnly
        Emitted(kept) == AsTuple([k \in 1..Len(kept) |-> Cleaned(kept[k])])
        Kept(n) == ~Dropped(n)
    IN  Emitted(SelectSeq(AsTuple([n \in 1..Len(lines) |-> n]), Kept))

\* C23: sanitize_body_for_cjk removes the acknowledgment snippets only from
\* the lines between a Self Checks heading (any level, any letter case) and
\* the next heading, drops such a line if only a checkbox marker or nothing
\* remains, and emits every other line unchanged, in the order of the input.
C23_SanitizeSelfChecks ==
    Called("sanitize_body_for_cjk") =>
        SplitLines(result) = SanitizedAsStated(SplitLines(call.argument))

\* The same snippet line in a Self Checks section and after the next
\* heading: the first is dropped, the second is emitted unchanged.
C23_Witness ==
    /\ Called("sanitize_body_for_cjk")
    /\ call.argument =
        <<"#","#","#","#","#","#"," ","S","E","L","F"," ","C","H","E","C","K","S","\n","-"," ","[","x","]"," ","<6211>","<5df2>","<9605>","<8bfb>","<5e76>","<540c>","<610f>","\n","#","#"," ","D","e","s","c","r","i","p","t","i","o","n","\n","-"," ","[","x","]"," ","<6211>","<5df2>","<9605>","<8bfb>","<5e76>","<540c>","<610f>">>
    /\ result = <<"#","#","#","#","#","#"," ","S","E","L","F"," ","C","H","E","C","K","S","\n","#","#"," ","D","e","s","c","r","i","p","t","i","o","n","\n","-"," ","[","x","]"," ","<6211>","<5df2>","<9605>","<8bfb>","<5e76>","<540c>","<610f>">>

\* The four signals of a question.
HasQuestionLabel(labels) ==
    \E n \in 1..Len(labels) : Lower(labels[n]) \in {<<"q","u","e","s","t","i","o","n">>, <<"s","u","p","p","o","r","t">>}

HasQuestionMark(title) ==
    \E n \in 1..Len(title) : title[n] \in {"?", "<ff1f>"}

\* The title begins with an interrogative word as a whole word.
StartsWithQuestionWord(title) ==
    \E w \in QuestionStartWords :
        /\ Len(Strip(title)) >= Len(w)
        /\ Lower(SubSeq(Strip(title), 1, Len(w))) = w
        /\ Len(Strip(title)) > Len(w) => ~IsWordChar(Strip(title)[Len(w) + 1])

\* A lead phrase occurs in the first ten lines of the body, normalized and
\* lower-cased.
HasLeadPhrase(body) ==
    LET lines == SplitLines(body)
        head == [n \in 1..Len(lines) |-> IF n <= 10 THEN lines[n] ELSE <<>>]
    IN  \E marker \in QuestionMarkers :
            Contains(Lower(normalize_space(JoinWith(<<" ">>, AsTuple(head)))),
                     marker)

\* C24: looks_like_question is true iff at least one of the four signals
\* holds, whatever the others are: a question or support label, a question
\* mark in the title, an interrogative word at the start of the title, a lead
\* phrase in the first ten lines of the body.
C24_QuestionSignals ==
    Called("looks_like_question") =>
        (result <=> \/ HasQuestionLabel(call.argument.labels)
                    \/ HasQuestionMark(call.argument.title)
                    \/ StartsWithQuestionWord(call.argument.title)
                    \/ HasLeadPhrase(call.argument.body))

\* A lead phrase on the eleventh line of the body and no other signal: not a
\* question.
C24_Witness ==
    /\ Called("looks_like_question")
    /\ call.argument.labels = <<<<"b","u","g">>>>
    /\ call.argument.title = <<"C","r","a","s","h"," ","o","n"," ","s","a","v","e">>
    /\ call.argument.body =
        JoinWith(<<"\n">>, Repeat(<<"l","i","n","e">>, 10) \o <<<<"h","o","w"," ","d","o"," ","i"," ","f","i","x"," ","i","t">>>>)
    /\ result = FALSE

\* The violations of core_standard_violations in their fixed order: title,
\* description, language, the five bug fields, feature.
StandardViolations ==
    << "Use a clear and descriptive issue title.",
       "Provide a detailed issue description with enough context.",
       "Use respectful, professional language (Code of Conduct).",
       "Include Dify version.",
       "Include deployment mode (Cloud or Self Hosted).",
       "Include steps to reproduce.",
       "Include expected behavior.",
       "Include actual behavior and logs/error details when possible.",
       "Describe the feature use case and expected value." >>

\* The issue carries the label bug.
BugLabelled(i) == \E n \in 1..Len(i.labels) : Lower(i.labels[n]) = <<"b","u","g">>

\* The body mentions no deployment mode.
NoDeploymentMode(body) ==
    \A word \in {<<"c","l","o","u","d">>, <<"s","e","l","f","-","h","o","s","t","e","d">>, <<"s","e","l","f"," ","h","o","s","t","e","d">>, <<"d","o","c","k","e","r">>,
                 <<"s","o","u","r","c","e">>} :
        ~Contains(Lower(body), word)

\* No rule before the standards rule decides the open flagship issue.
ReachesStandardsRule(i) ==
    LET verdicts == Classified[TextOf(i)]
    IN  /\ i.repo = CORE_REPO
        /\ Upper(i.state) = <<"O","P","E","N">>
        /\ Len(i.linked_prs) = 0
        /\ Upper(i.author_association) \notin SKIP_ASSOCIATIONS
        /\ ~AtOrAboveThreshold(verdicts.combined_ratio)
        /\ ~AtOrAboveThreshold(verdicts.body_ratio)
        /\ ~verdicts.is_question
        /\ \/ verdicts.reported_version = None
           \/ ~VersionLess(verdicts.reported_version, MIN_DIFY_VERSION)

\* C25: for a bug-like issue core_standard_violations checks the five
\* required fields independently, each contributing its violation iff the
\* body has none of its markers, whatever the other four, and the violations
\* keep the fixed order; an open flagship issue that reaches the standards
\* rule, carries the label bug and mentions no deployment mode is closed as
\* core-standards with "Include deployment mode (Cloud or Self Hosted).".
C25_BugFieldsIndependent ==
    /\ Called("core_standard_violations") /\ is_bug_like(call.argument) =>
        LET Expected(violation) ==
                \/ \E k \in 1..5 :
                    /\ violation = StandardViolations[3 + k]
                    /\ ~Contains(call.argument.body, BugFieldSentences[k])
                \/ /\ \A k \in 1..5 : violation # StandardViolations[3 + k]
                   /\ Returns(violation)
        IN  result = SelectSeq(StandardViolations, Expected)
    /\ Called("decide")
            /\ ReachesStandardsRule(call.argument)
            /\ BugLabelled(call.argument)
            /\ NoDeploymentMode(call.argument.body) =>
        /\ result.action = "close"
        /\ result.category = "core-standards"
        /\ \E n \in 1..Len(result.reasons) :
                result.reasons[n] = StandardViolations[5]

\* A long bug report with every field but the deployment mode: that
\* violation alone.
C25_Witness ==
    /\ Called("core_standard_violations")
    /\ call.argument.labels = <<<<"b","u","g">>>>
    /\ Len(call.argument.body) >= 120
    /\ \A k \in {1, 3, 4, 5} :
            Contains(call.argument.body, BugFieldSentences[k])
    /\ result = <<StandardViolations[5]>>

\* The bullet of each category that renders its reasons when there is none.
DefaultBullet ==
    "unclear" :> <<"- The issue content is not clear enough to triage.">>
    @@ "outdated-version" :>
        <<"- Reported Dify version is below v", MIN_DIFY_VERSION_STR, ".">>
    @@ "core-standards" :> <<"- Required issue details are missing.">>

\* The lines of the comment from the first after "### Why this is being
\* closed" and its sentence up to the next empty line.
BulletsOf(comment) ==
    LET last == CHOOSE n \in 5..Len(comment) :
                    /\ comment[n + 1] = <<>>
                    /\ \A k \in 6..n : comment[k] # <<>>
    IN  SubSeq(comment, 6, last)

\* C26: render_comment returns the empty text for every category other than
\* question, language, unclear, outdated-version and core-standards; for
\* language and question the text is the same whatever the reasons; for the
\* other three every reason is a "- " bullet of its own, in the order of the
\* input, and no reason gives exactly one default bullet; every comment that
\* is not empty starts with the greeting to the author.
C26_RenderComment ==
    Called("render_comment") =>
        LET Stated(i, category, reasons) ==
                /\ category \notin {"question", "language", "unclear",
                                    "outdated-version", "core-standards"}
                    => result = <<>>
                /\ category \in {"question", "language"}
                    => /\ result = render_comment(i, category, <<>>)
                       /\ \A n \in 1..Len(result) : \A k \in 1..Len(reasons) :
                            result[n] # <<"- ", reasons[k]>>
                /\ category \in DOMAIN DefaultBullet
                    => /\ result[5] = <<>>
                       /\ BulletsOf(result) =
                            IF Len(reasons) = 0 THEN <<DefaultBullet[category]>>
                            ELSE [n \in 1..Len(reasons) |-> <<"- ", reasons[n]>>]
                /\ result # <<>>
                    => result[1] = <<"Hi @", i.author,
                                     ", thanks for opening this issue.">>
        IN  Stated(call.argument.issue, call.argument.category,
                   call.argument.reasons)

\* Two reasons of a core-standards comment: two bullets in their order.
C26_Witness ==
    /\ Called("render_comment")
    /\ call.argument.category = "core-standards"
    /\ call.argument.reasons =
        <<"Description is empty.", "Title is too short or generic.">>
    /\ BulletsOf(result) = << <<"- ", "Description is empty.">>,
                              <<"- ", "Title is too short or generic.">> >>

\* The lines extract_dify_version is applied to that mention a version in
\* passing, and the version each mentions.
MentionLines ==
    { <<<<"w","o","r","k","s"," ","s","i","n","c","e"," ","d","i","f","y"," ","v","2",".","0">>, <<2, 0, 0>>>>,
      <<<<"D","i","f","y"," ","1",".","1","1",".","3"," ","b","r","o","k","e"," ","i","t">>, <<1, 11, 3>>>> }

\* The version on a line: that of a labelled line, that of a mention, or
\* none.
VersionOn(line) ==
    IF \E l \in LabelledLines \cup MentionLines : l[1] = line
    THEN (CHOOSE l \in LabelledLines \cup MentionLines : l[1] = line)[2]
    ELSE None

\* The least position of the set, 0 if it is empty.
FirstOf(positions) ==
    IF positions = {} THEN 0
    ELSE CHOOSE n \in positions : \A k \in positions : n <= k

\* The positions of the lines with the phrase "dify version", and of the
\* mentions.
PhraseAt ==
    {n \in 1..Len(ArgumentLines) :
        Contains(Lower(ArgumentLines[n]), <<"d","i","f","y"," ","v","e","r","s","i","o","n">>)}

MentionAt ==
    {n \in 1..Len(ArgumentLines) :
        \E l \in MentionLines : l[1] = ArgumentLines[n]}

\* The version of the first mention in passing, if any.
InlineVersion ==
    IF MentionAt = {} THEN None ELSE VersionOn(ArgumentLines[FirstOf(MentionAt)])

\* C27 as stated: the inline pattern is used only if no line has the phrase
\* "dify version"; with such a line the result is the version on it, none if
\* it has none.
C27_Original ==
    Called("extract_dify_version") =>
        result = IF PhraseAt # {} THEN VersionOn(ArgumentLines[FirstOf(PhraseAt)])
                 ELSE InlineVersion

\* C27, amended: the inline pattern is used only if no line with the phrase
\* "dify version" carries a version; otherwise the result is the version on
\* the first such line that carries one, a missing patch read as 0; there is
\* no result when neither the labelled lines nor the inline scan yield a
\* version, and for the empty body.
C27_VersionExtraction ==
    Called("extract_dify_version") =>
        LET Stated(parsable) ==
                IF parsable # {} THEN VersionOn(ArgumentLines[FirstOf(parsable)])
                ELSE InlineVersion
        IN  /\ result = Stated({n \in PhraseAt : VersionOn(ArgumentLines[n]) # None})
            /\ call.argument = <<>> => result = None

\* The label without a version on the line before the mention "dify v2.0":
\* the version is 2.0.0.
C27_Witness ==
    /\ Called("extract_dify_version")
    /\ call.argument = <<"D","i","f","y"," ","v","e","r","s","i","o","n","\n","w","o","r","k","s"," ","s","i","n","c","e"," ","d","i","f","y"," ","v","2",".","0">>
    /\ result = <<2, 0, 0>>

----------------------------------------------------------------------------
(* Properties of a run of the decision engine, continued.                  *)

\* C28: on a plugin repository the decision does not depend on the author
\* association or on the linked pull requests: the issues that differ from
\* the one decided in these two fields only get the same action, category,
\* reasons and comment, so neither a trusted author nor a linked pull request
\* exempts a plugin issue from being closed.
C28_PluginIgnoresAuthorAndPrs ==
    Returned /\ InPluginRepo =>
        \A association \in Associations, linked_prs \in LinkedPrLists :
            decide([issue EXCEPT !.author_association = association,
                                 !.linked_prs = linked_prs]) = decision

\* A plugin issue of an owner with a linked pull request, closed.
C28_Witness ==
    /\ Returned
    /\ InPluginRepo
    /\ issue.author_association = <<"O","W","N","E","R">>
    /\ Len(issue.linked_prs) > 0
    /\ decision.action = "close"

----------------------------------------------------------------------------
(* Properties of a run of main, continued.                                 *)

\* C29: whenever main invokes close_issue, the issue decided on is of a
\* supported repository and was fetched with the state OPEN, in any letter
\* case, and on a core-like repository it has no linked pull request and an
\* author association outside the trusted ones; an issue fetched without
\* state ("UNKNOWN") or closed is neither closed nor commented on.
C29_ClosedOnlyIfOpen ==
    /\ CloseCalls # {} =>
        /\ issue.repo \in SUPPORTED_REPOS
        /\ Upper(issue.state) = <<"O","P","E","N">>
        /\ issue.repo \in CORE_LIKE_REPOS =>
            /\ Len(issue.linked_prs) = 0
            /\ Upper(issue.author_association) \notin
                    {<<"O","W","N","E","R">>, <<"M","E","M","B","E","R">>, <<"C","O","L","L","A","B","O","R","A","T","O","R">>, <<"C","O","N","T","R","I","B","U","T","O","R">>}
    /\ pc \in {"apply", "exited"} /\ issue # None
            /\ Upper(issue.state) \in {<<"U","N","K","N","O","W","N">>, <<"C","L","O","S","E","D">>} =>
        /\ CloseCalls = {}
        /\ decision.comment = <<>>

\* An issue of the flagship repository fetched with the state "open", closed
\* by main.
C29_Witness ==
    /\ pc = "exited"
    /\ CloseCalls # {}
    /\ issue.repo = CORE_REPO
    /\ issue.state = <<"o","p","e","n">>
    /\ exit_status = <<0>>

----------------------------------------------------------------------------
(* A run of main of pr-review-helper/scripts/review_pr.py: the branch of   *)
(* the pull request is checked out into the repository at workdir, the     *)
(* checks run on the package, and the branch the run started on is         *)
(* restored.  A branch is its name, a detached head is "HEAD".             *)

DEFAULT_REPO == "langgenius/dify-plugins"

\* The branch gh pr checkout creates for the pull request.
PrHeadBranch == "pr-branch"

\* The except clauses of main: the error is printed and main returns 1.
Raised(message) ==
    /\ stderr' = Append(stderr, <<"ERROR: ", message>>)
    /\ exit_status' = <<1>>
    /\ pc' = "exited"

InitReview ==
    /\ args \in [pr : {"1939"}, repo : {DEFAULT_REPO},
                 submit_review : BOOLEAN, keep_temp : BOOLEAN]
    /\ workdir \in [head : {"main", "HEAD", PrHeadBranch},
                    branches : {{"main"}, {"main", PrHeadBranch}}]
    /\ workdir.head \in workdir.branches \cup {"HEAD"}
    /\ original_branch = ""
    /\ pr_branch = ""
    /\ pr_data = None
    /\ results = <<>>
    /\ approved = FALSE
    /\ target = None
    /\ calls = <<>>
    /\ stdout = <<>>
    /\ stderr = <<>>
    /\ exit_status = None
    /\ pc = "start"
    /\ NoIssue
    /\ NoCall

\* The commands are looked up, the interpreter is detected, workdir is
\* checked and original_branch = current_branch(workdir); any of them may
\* raise CheckFailed.
ReadOriginalBranch ==
    LET command == <<"git", "rev-parse", "--abbrev-ref", "HEAD">>
    IN  /\ pc = "start"
        /\ \/ /\ calls' = calls \o Ran(<<command>>, <<0>>)
              /\ original_branch' = workdir.head
              /\ pc' = "view"
              /\ UNCHANGED <<stderr, exit_status>>
           \/ /\ calls' = calls \o Ran(<<command>>, <<1>>)
              /\ Raised(CommandFailed(command))
              /\ UNCHANGED original_branch
           \/ /\ Raised("workdir is not a git repository")
              /\ UNCHANGED <<calls, original_branch>>
        /\ UNCHANGED <<args, target, stdout, issue, decision, callVars,
                       workdir, pr_branch, pr_data, results, approved>>

\* pr_data = gh_json(args.pr, args.repo, fields): the paths of the files of
\* the pull request, or CheckFailed.
GhJson ==
    LET command == <<"gh", "pr", "view", args.pr, "-R", args.repo, "--json",
                     "number,url,title,body,files">>
    IN  /\ pc = "view"
        /\ \/ /\ calls' = calls \o Ran(<<command>>, <<0>>)
              /\ pr_data' \in {[files |-> files] :
                                files \in {<<>>, <<"a.difypkg">>,
                                           <<"README.md", "a.difypkg">>,
                                           <<"a.difypkg", "b.difypkg">>}}
              /\ pc' = "checkout"
              /\ UNCHANGED <<stderr, exit_status>>
           \/ /\ calls' = calls \o Ran(<<command>>, <<1>>)
              /\ Raised(CommandFailed(command))
              /\ UNCHANGED pr_data
        /\ UNCHANGED <<args, target, stdout, issue, decision, callVars,
                       workdir, original_branch, pr_branch, results, approved>>

\* checkout_pr(args.pr, args.repo, workdir): the repository is on the branch
\* of the pull request, or the command fails and the repository is as it
\* was.
CheckoutPr ==
    LET command == <<"gh", "pr", "checkout", args.pr, "-R", args.repo>>
    IN  /\ pc = "checkout"
        /\ \/ /\ calls' = calls \o Ran(<<command>>, <<0>>)
              /\ workdir' = [head |-> PrHeadBranch,
                             branches |-> workdir.branches \cup {PrHeadBranch}]
              /\ pc' = "branch"
              /\ UNCHANGED <<stderr, exit_status>>
           \/ /\ calls' = calls \o Ran(<<command>>, <<1>>)
              /\ Raised(CommandFailed(command))
              /\ UNCHANGED workdir
        /\ UNCHANGED <<args, target, stdout, issue, decision, callVars,
                       original_branch, pr_branch, pr_data, results, approved>>

\* pr_branch = current_branch(workdir), or CheckFailed.
ReadPrBranch ==
    LET command == <<"git", "rev-parse", "--abbrev-ref", "HEAD">>
    IN  /\ pc = "branch"
        /\ \/ /\ calls' = calls \o Ran(<<command>>, <<0>>)
              /\ pr_branch' = workdir.head
              /\ pc' = "resolve"
              /\ UNCHANGED <<stderr, exit_status>>
           \/ /\ calls' = calls \o Ran(<<command>>, <<1>>)
              /\ Raised(CommandFailed(command))
              /\ UNCHANGED pr_branch
        /\ UNCHANGED <<args, target, stdout, issue, decision, callVars,
                       workdir, original_branch, pr_data, results, approved>>

\* pkg_relpath = resolve_pkg_file(pr_data): CheckFailed unless exactly one
\* file of the pull request is a package.
ResolvePkgFile ==
    LET \* The paths that end with ".difypkg".
        pkg_files ==
            SelectSeq(pr_data.files,
                      LAMBDA path : path \in {"a.difypkg", "b.difypkg"})
    IN  /\ pc = "resolve"
        /\ IF Len(pkg_files) = 1
           THEN pc' = "try" /\ UNCHANGED <<stderr, exit_status>>
           ELSE Raised(<<"Exactly one .difypkg file must be changed in PR. Found ",
                         Len(pkg_files)>>)
        /\ UNCHANGED <<args, target, calls, stdout, issue, decision, callVars,
                       reviewVars>>

\* The body of the try statement up to the review body: the package is
\* unpacked and the checks append their results, approved iff none failed;
\* or unpacking raises CheckFailed, or a command of a check times out.
RunChecks ==
    LET \* The names of the checks, grouped.
        names == <<"PR content language", "Project structure", "Manifest",
                   "Packaging test">>
    IN  /\ pc = "try"
        /\ \/ /\ \E ok \in [1..Len(names) -> BOOLEAN] :
                    /\ results' = [n \in 1..Len(names) |->
                                    [name |-> names[n], ok |-> ok[n]]]
                    /\ approved' = \A n \in 1..Len(names) : ok[n]
              /\ stdout' = stdout \o << <<"\n## Suggested Review Body">> >>
              /\ pc' = IF args.submit_review THEN "post" ELSE "finally"
           \/ /\ pc' \in {"CheckFailed", "TimeoutExpired"}
              /\ UNCHANGED <<results, approved, stdout>>
        /\ UNCHANGED <<args, target, calls, stderr, exit_status, issue,
                       decision, callVars, workdir, original_branch, pr_branch,
                       pr_data>>

\* post_review(args.pr, args.repo, approved, body), or CheckFailed.
PostReview ==
    LET command ==
            <<"gh", "pr", "review", args.pr, "-R", args.repo,
              IF approved THEN "--approve" ELSE "--request-changes", "-b">>
    IN  /\ pc = "post"
        /\ \/ /\ calls' = calls \o Ran(<<command>>, <<0>>)
              /\ stdout' = Append(stdout, <<"\nSubmitted review via gh.">>)
              /\ pc' = "finally"
           \/ /\ calls' = calls \o Ran(<<command>>, <<1>>)
              /\ pc' = "CheckFailed"
              /\ UNCHANGED stdout
        /\ UNCHANGED <<args, target, stderr, exit_status, issue, decision,
                       callVars, reviewVars>>

\* The finally clause and the end of main: git checkout original_branch
\* unless it is empty or "HEAD", whether the command succeeds or not; the
\* branch of the pull request is deleted unless it is empty, "HEAD" or
\* original_branch, which git refuses for the branch the repository is on;
\* main returns 0 if approved and 1 otherwise, or the exception reaches its
\* handler.
Restore ==
    LET checkout == <<"git", "checkout", original_branch>>
        delete == <<"git", "branch", "-D", pr_branch>>
        Deleted(head, returncodes) ==
            IF pr_branch \in {"", "HEAD", original_branch}
            THEN /\ workdir' = [workdir EXCEPT !.head = head]
                 /\ calls' = calls \o Ran(<<checkout>>, returncodes)
            ELSE IF pr_branch = head
            THEN /\ workdir' = [workdir EXCEPT !.head = head]
                 /\ calls' = calls \o Ran(<<checkout>>, returncodes)
                                   \o Ran(<<delete>>, <<1>>)
            ELSE /\ workdir' = [head |-> head,
                                branches |-> workdir.branches \ {pr_branch}]
                 /\ calls' = calls \o Ran(<<checkout>>, returncodes)
                                   \o Ran(<<delete>>, <<0>>)
    IN  /\ pc \in {"finally", "CheckFailed", "TimeoutExpired"}
        /\ IF original_branch \in {"", "HEAD"}
           THEN Deleted(workdir.head, <<>>)
           ELSE Deleted(original_branch, <<0>>) \/ Deleted(workdir.head, <<1>>)
        /\ stdout' = IF args.keep_temp
                     THEN Append(stdout, <<"Temp artifacts kept at: ">>)
                     ELSE stdout
        /\ IF pc = "finally"
           THEN /\ exit_status' = IF approved THEN <<0>> ELSE <<1>>
                /\ pc' = "exited"
                /\ UNCHANGED stderr
           ELSE Raised(pc)
        /\ UNCHANGED <<args, target, issue, decision, callVars,
                       original_branch, pr_branch, pr_data, results, approved>>

NextReview ==
    \/ ReadOriginalBranch
    \/ GhJson
    \/ CheckoutPr
    \/ ReadPrBranch
    \/ ResolvePkgFile
    \/ RunChecks
    \/ PostReview
    \/ Restore

SpecReview == InitReview /\ [][NextReview]_vars

\* The branch of the pull request has been checked out.
CheckedOut ==
    \E n \in 1..Len(calls) :
        /\ calls[n].command[2] = "pr" /\ calls[n].command[3] = "checkout"
        /\ calls[n].returncode = 0

\* C30: once the branch of the pull request has been checked out, every end
\* of the run, be it with all checks passed, with a check failed or with
\* CheckFailed or a timeout of a later step, leaves the repository on the
\* branch it started on, the local branch of the pull request deleted.
C30_BranchRestored ==
    pc = "exited" /\ CheckedOut =>
        /\ workdir.head = original_branch
        /\ workdir.head # PrHeadBranch
        /\ PrHeadBranch \notin workdir.branches
====
